---- MODULE Spec2Model ----
(***************************************************************************)
(* Verification model of the apphealth status dashboard backend.          *)
(*                                                                         *)
(* Part I   SQLQueryGenerator.generate_query: the generate / validate /    *)
(*          execute / repair session (services/sql_query_generator.py).    *)
(* Part II  ParserFactory.parse_url and the parsers held by the global     *)
(*          parser_factory (parsers/__init__.py, parsers/html_parser.py).  *)
(* Part III PollingScheduler: the interval jobs and the poll_site          *)
(*          coroutines in flight on the event loop (polling/scheduler.py). *)
(* Part IV  AdvisoryService.process_site_advisories: the check, analysis   *)
(*          and insert of advisories (services/advisory_service.py).       *)
(* Part V   PollingScheduler.poll_site: parse, module filter and the       *)
(*          stored reading (polling/scheduler.py).                         *)
(* Part VI  The parsers, the normalizers and the SQL policy validator as   *)
(*          functions of one input (utils/normalizer.py,                   *)
(*          parsers/json_parser.py, rss_parser.py, html_parser.py,         *)
(*          services/sql_query_generator.py).                              *)
(* Part VII PollingScheduler.poll_site step by step: the reading, the      *)
(*          advisories and the notification (polling/scheduler.py,         *)
(*          notifications.py, services/llm.py).                            *)
(*                                                                         *)
(* Texts (SQL, task) are sequences of tokens, cut so that no pattern of    *)
(* the code begins or ends inside a token; Python's substring test         *)
(* `pat in text` is the contiguous-subsequence test Contains.              *)
(***************************************************************************)
EXTENDS Integers, Sequences, FiniteSets, TLC

VARIABLES
    \* ---- Part I: one call of generate_query ----
    task,            \* argument task (token text)
    max_repairs,     \* argument max_repairs
    backend,         \* argument backend
    pc,              \* position of the call: "start", "loop", "returned", "raised"
    llm_output,      \* local llm_output (parsed JSON object) or NoOutput
    sql,             \* local sql
    policy_failures, \* local policy_failures
    exec_result,     \* local exec_result
    attempts,        \* local attempts (the repair_history)
    repair_count,    \* local repair_count
    result,          \* the returned dict, NoResult before the return
    exit,            \* how the repair loop was left: "none", "cond", "break"
    executed,        \* every text handed to _execute_sql, in order
    prompts,         \* every prompt handed to the completion capability, in order
    received,        \* the kind of every completion text received, in order
    \* ---- Part II: the global parser_factory ----
    html_parser,     \* attributes of the HTMLParser held in parser_factory.parsers
    last_parse,      \* the latest parse_url call: its arguments, fetch and result
    \* ---- Part III: the global polling_scheduler ----
    jobs,            \* site ids with a job "poll_<id>" in self.scheduler
    instances,       \* the executor's count of running instances of each job
    tasks,           \* poll_site tasks created by create_task and not started yet
    polling,         \* poll_site coroutines in flight, per site and origin
    \* ---- Part IV: the advisories table and the calls working on it ----
    advisories,      \* rows of the advisories table, in insertion order
    proc,            \* each process_site_advisories call: position and locals
    analysed,        \* every LLMService.analyze_advisory invocation made
    calls,           \* number of process_site_advisories calls started
    \* ---- Part V: one monitored site and its readings ----
    enabled_modules, \* module_name of the site's enabled SiteModule rows
    last_reading,    \* the newest row of the readings table for the site
    \* ---- Part VI: one call of a parser or normalizer ----
    fn_call,         \* the function called and its argument
    fn_return,       \* what the call returned or raised, Pending before
    fn_previous,     \* the previous call with the same argument: when, and what it returned
    \* ---- Part VII: the polls of one site, one after another ----
    readings,        \* rows of the readings table for the site, in insertion order
    site_row,        \* the site's last_notified_at and last_notified_status
    poll,            \* the poll_site call in progress or just finished
    sent,            \* every notification send_notification delivered, in order
    email_configured, \* EmailNotifier.is_configured()
    \* ---- the system clock ----
    utcnow           \* what datetime.utcnow() returns, as an hour count

sqlvars == <<task, max_repairs, backend, pc, llm_output, sql, policy_failures,
             exec_result, attempts, repair_count, result, exit, executed, prompts,
             received>>

parsevars == <<html_parser, last_parse>>

schedvars == <<jobs, instances, tasks, polling>>

advvars == <<advisories, proc, analysed, calls>>

pollvars == <<enabled_modules, last_reading>>

fnvars == <<fn_call, fn_return, fn_previous>>

clockvars == <<utcnow>>

pipevars == <<readings, site_row, poll, sent, email_configured>>

vars == <<sqlvars, parsevars, schedvars, advvars, pollvars, fnvars, clockvars,
          pipevars>>

\* what the actions of each part leave alone
OutsideSql == <<parsevars, schedvars, advvars, pollvars, fnvars, clockvars, pipevars>>
OutsideParse == <<sqlvars, schedvars, advvars, pollvars, fnvars, clockvars, pipevars>>
OutsidePipe == <<sqlvars, parsevars, schedvars, advvars, pollvars, fnvars, clockvars>>
OutsideSched == <<sqlvars, parsevars, advvars, pollvars, fnvars, clockvars, pipevars>>
OutsideAdv == <<sqlvars, parsevars, schedvars, pollvars, fnvars, clockvars, pipevars>>
OutsidePoll == <<sqlvars, schedvars, advvars, fnvars, clockvars, pipevars>>
OutsideFn == <<sqlvars, parsevars, schedvars, advvars, pollvars, clockvars, pipevars>>

(***************************************************************************)
(* Bounds of the model.                                                    *)
(***************************************************************************)
MaxRepairsBound == 2

(***************************************************************************)
(* Text helpers.                                                           *)
(***************************************************************************)
\* Python `pat in text`.  A text is the concatenation of its tokens, and the
\* texts of the model are cut so that no pattern of the code begins or ends
\* inside a token: an identifier that holds a pattern is written as several
\* tokens ("interval", "_end" for interval_end).
Contains(text, pat) ==
    \E i \in 0..(Len(text) - Len(pat)) :
        \A j \in 1..Len(pat) : text[i + j] = pat[j]

\* str.upper() on one token (only tokens of the model's vocabulary that are
\* not already upper case need an entry).
UpperTok(t) ==
    CASE t = "partition" -> "PARTITION"
      [] t = "by" -> "BY"
      [] t = "drop" -> "DROP"
      [] t = "lead(" -> "LEAD("
      [] t = "max(" -> "MAX("
      [] t = "min(" -> "MIN("
      [] t = "count(" -> "COUNT("
      [] t = "interval" -> "INTERVAL"
      [] t = "now()" -> "NOW()"
      [] t = "row_number" -> "ROW_NUMBER"
      [] t = "::timestamp" -> "::TIMESTAMP"
      [] t = "ts" -> "TS"
      [] t = "select" -> "SELECT"
      [] OTHER -> t

\* str.lower() on one token.
LowerTok(t) ==
    CASE t = "Calculate" -> "calculate"
      [] t = "Show" -> "show"
      [] t = "List" -> "list"
      [] t = "JULIANDAY(" -> "julianday("
      [] t = "DATETIME('now'" -> "datetime('now'"
      [] t = "STATUS" -> "status"
      [] t = "'OPERATIONAL'" -> "'operational'"
      [] t = "CREATED_AT" -> "created_at"
      [] OTHER -> t

Upper(text) == [i \in 1..Len(text) |-> UpperTok(text[i])]
Lower(text) == [i \in 1..Len(text) |-> LowerTok(text[i])]

\* any(p in text for p in pats)
AnyIn(pats, text) == \E k \in 1..Len(pats) : Contains(text, pats[k])

(***************************************************************************)
(* Part I.  services/sql_query_generator.py                                *)
(***************************************************************************)
SQL_BACKEND_OLLAMA == "ollama"
SQL_BACKEND_SQLCODER == "sqlcoder"
SQL_BACKEND_CUSTOM == "custom"

\* FORBIDDEN_TOKENS, each with the tag _validate_policy builds from it
\* (token.replace('(', '').replace(')', '')).
FORBIDDEN_TOKENS ==
    << [token |-> <<"INTERVAL">>, tag |-> "wrong_dialect_token(INTERVAL)"],
       [token |-> <<"NOW()">>, tag |-> "wrong_dialect_token(NOW)"],
       [token |-> <<"DATE_TRUNC">>, tag |-> "wrong_dialect_token(DATE_TRUNC)"],
       [token |-> <<"TIMESTAMPDIFF">>, tag |-> "wrong_dialect_token(TIMESTAMPDIFF)"],
       [token |-> <<"CURRENT_TIMESTAMP", "AT", "TIME", "ZONE">>,
        tag |-> "wrong_dialect_token(CURRENT_TIMESTAMP AT TIME ZONE)"],
       [token |-> <<"FROM_UNIXTIME">>, tag |-> "wrong_dialect_token(FROM_UNIXTIME)"],
       [token |-> <<"EXTRACT(", "EPOCH", "FROM">>,
        tag |-> "wrong_dialect_token(EXTRACTEPOCH FROM)"],
       [token |-> <<"::timestamp">>, tag |-> "wrong_dialect_token(::timestamp)"],
       [token |-> <<"CAST(", "ts", "AS", "TIMESTAMP)">>,
        tag |-> "wrong_dialect_token(CASTts AS TIMESTAMP)"],
       [token |-> <<"GREATEST(">>, tag |-> "wrong_dialect_token(GREATEST)"],
       [token |-> <<"LEAST(">>, tag |-> "wrong_dialect_token(LEAST)"] >>

\* Mutant: "each service" is missing from the per-site patterns.
requires_partition_NoEachService ==
    << <<"per", "site">>, <<"by", "site">>, <<"all", "services">> >>

\* UPTIME_PATTERNS
requires_lead == << <<"uptime">>, <<"duration">>, <<"time-weighted">>, <<"interval">> >>
requires_partition ==
    << <<"per", "site">>, <<"by", "site">>, <<"each", "service">>, <<"all", "services">> >>
requires_window_clip ==
    << <<"last", "30", "days">>, <<"last", "7", "days">>, <<"window">>, <<"time", "range">> >>
requires_seed_state ==
    << <<"window", "start">>, <<"seed">>, <<"initial", "state">>, <<"beginning">> >>

ddl_dml_keywords == <<"CREATE", "DROP", "ALTER", "INSERT", "UPDATE", "DELETE", "TRUNCATE">>

status_task_keywords ==
    << <<"uptime">>, <<"operational">>, <<"status">>, <<"degraded">>, <<"incident">> >>

status_literals ==
    {"'operational'", "'degraded'", "'incident'", "'maintenance'", "'recently_resolved'"}

\* One optional entry of the failures list.
Fail(cond, tag) == IF cond THEN <<tag>> ELSE <<>>

\* for token in FORBIDDEN_TOKENS: if token.upper() in sql_upper: failures.append(...)
ForbiddenFailures(sql_upper) ==
    LET hit == SelectSeq(FORBIDDEN_TOKENS,
                         LAMBDA e : Contains(sql_upper, Upper(e.token)))
    IN  [i \in 1..Len(hit) |-> hit[i].tag]

\* if ";" in sql.strip()[:-1]
MultiStatement(s) == \E i \in 1..(Len(s) - 1) : s[i] = ";"

\* for keyword in ddl_dml_keywords: if re.search(rf'\b{keyword}\b', sql_upper)
DdlDmlFailures(sql_upper) ==
    LET hit == SelectSeq(ddl_dml_keywords, LAMBDA k : Contains(sql_upper, <<k>>))
    IN  [i \in 1..Len(hit) |-> IF hit[i] = "CREATE" THEN "ddl_dml:CREATE"
                               ELSE IF hit[i] = "DROP" THEN "ddl_dml:DROP"
                               ELSE IF hit[i] = "ALTER" THEN "ddl_dml:ALTER"
                               ELSE IF hit[i] = "INSERT" THEN "ddl_dml:INSERT"
                               ELSE IF hit[i] = "UPDATE" THEN "ddl_dml:UPDATE"
                               ELSE IF hit[i] = "DELETE" THEN "ddl_dml:DELETE"
                               ELSE "ddl_dml:TRUNCATE"]

\* re.search(r'-\s*(created_at|last_changed_at|timestamp)', sql, re.IGNORECASE)
TimestampSubtraction(s) ==
    \E i \in 1..(Len(s) - 1) :
        /\ s[i] = "-"
        /\ LowerTok(s[i + 1]) \in {"created_at", "last_changed_at", "timestamp"}

\* re.search(r"status\s*=\s*['\"](?:operational|...)['\"]", sql, re.IGNORECASE)
StatusEquality(s) ==
    \E i \in 1..(Len(s) - 2) :
        /\ LowerTok(s[i]) = "status"
        /\ s[i + 1] = "="
        /\ LowerTok(s[i + 2]) \in status_literals

\* SQLQueryGenerator._validate_policy(sql, task): the list of violation tags.
ValidatePolicy(s, t) ==
    LET sql_upper == Upper(s)
        sql_lower == Lower(s)
        task_lower == Lower(t)
        task_needs_lead == AnyIn(requires_lead, task_lower)
        task_needs_partition == AnyIn(requires_partition, task_lower)
        task_needs_clip == AnyIn(requires_window_clip, task_lower)
        task_needs_seed == AnyIn(requires_seed_state, task_lower)
    IN  ForbiddenFailures(sql_upper)
        \o Fail(MultiStatement(s), "multi_statement")
        \o DdlDmlFailures(sql_upper)
        \o Fail(task_needs_lead /\ ~Contains(sql_upper, <<"LEAD(">>)
                  /\ ~Contains(sql_upper, <<"LAG(">>), "missing_LEAD")
        \o Fail(task_needs_partition /\ ~Contains(sql_upper, <<"PARTITION", "BY">>),
                "no_partition_by_site")
        \o Fail(task_needs_clip /\ ~Contains(sql_lower, <<"datetime('now'">>),
                "no_window_bounds")
        \o Fail(task_needs_clip
                  /\ (~Contains(sql_upper, <<"MAX(">>) \/ ~Contains(sql_upper, <<"MIN(">>)),
                "no_seed_or_clip")
        \o Fail(task_needs_seed /\ ~Contains(sql_upper, <<"ROW_NUMBER">>)
                  /\ ~Contains(sql_upper, <<"PARTITION", "BY">>), "no_seed_state")
        \o Fail(TimestampSubtraction(s) /\ ~Contains(sql_lower, <<"julianday(">>),
                "direct_timestamp_subtraction")
        \o Fail(task_needs_lead /\ Contains(sql_upper, <<"COUNT(">>)
                  /\ ~Contains(sql_lower, <<"julianday(">>),
                "row_counts_instead_of_durations")
        \o Fail(AnyIn(status_task_keywords, task_lower) /\ StatusEquality(s)
                  /\ ~Contains(s, <<"UPPER(status)">>) /\ ~Contains(s, <<"LOWER(status)">>),
                "case_sensitive_status_check")

(***************************************************************************)
(* Inputs of a session: tasks, SQL texts, completion responses, executor   *)
(* outcomes.                                                               *)
(***************************************************************************)
\* "Calculate uptime percentage for each service over the last 7 days"
TaskUptime ==
    <<"Calculate", "uptime", "percentage", "for", "each", "service",
      "over", "the", "last", "7", "days">>
\* "List site names"
TaskNames == <<"List", "site", "names">>

Tasks == {TaskUptime, TaskNames}

\* A hand-written time-weighted uptime query: the steps of the recipe in the
\* prompts, with the clipped bounds named seg_start and seg_end.
QUptime ==
    <<"SELECT", "LEAD(", "created_at", ")", "OVER", "(", "PARTITION", "BY", "site_id", ")",
      "MAX(", "created_at", "datetime('now'", ")", "MIN(", "next_ts", "datetime('now'", ")",
      "julianday(", "seg_end", ")", "-", "julianday(", "seg_start", ")",
      "UPPER(status)", "=", "'OPERATIONAL'">>
\* The same computation over one global window: no PARTITION BY.
QNoPartition ==
    <<"select", "lead(", "created_at", ")", "OVER", "(", "ORDER", "BY", "created_at", ")",
      "max(", "created_at", "datetime('now'", ")", "min(", "next_ts", "datetime('now'", ")",
      "julianday(", "seg_end", ")", "-", "julianday(", "seg_start", ")",
      "UPPER(status)", "=", "'OPERATIONAL'">>
\* The query of the recipe with the names the prompts give the clipped bounds
\* (lines 328-334, 423-429): interval_start and interval_end.
QRecipe ==
    <<"SELECT", "LEAD(", "created_at", ")", "OVER", "(", "PARTITION", "BY", "site_id", ")",
      "MAX(", "created_at", "datetime('now'", ")", "AS", "interval", "_start",
      "MIN(", "next_ts", "datetime('now'", ")", "AS", "interval", "_end",
      "julianday(", "interval", "_end", ")", "-", "julianday(", "interval", "_start", ")",
      "UPPER(status)", "=", "'OPERATIONAL'">>
\* A plain listing.
QNames == <<"SELECT", "display_name", "FROM", "sites">>
\* A destructive statement.
QDrop == <<"drop", "TABLE", "readings">>
\* A schema probe.
QPragma == <<"PRAGMA", "table_info", "(", "readings", ")">>

SqlTexts == {QUptime, QNoPartition, QNames, QDrop}
IntrospectTexts == {QPragma, QDrop}

\* JSON values of the keys the session reads.
JStr(v) == [t |-> "str", v |-> v]
JNull == [t |-> "null"]
JAbsent == [t |-> "absent"]

\* What a completion text parses to (re.search(r'\{.*\}') then json.loads):
\*   "fallback"  LLMService._fallback_chat's prose, after a provider failure
\*   "prose"     provider text that is no JSON            -> JSONDecodeError
\*   "scalar"    JSON that is no object (42, null, "x")    -> a non-dict value
\*   "object"    a JSON object with the keys below
Responses ==
    [kind : {"fallback", "prose", "scalar"}]
    \cup [kind : {"object"},
          introspect_sql : {JNull} \cup {JStr(q) : q \in IntrospectTexts},
          sql : {JNull, JAbsent} \cup {JStr(q) : q \in SqlTexts}]

\* The repair loop reads only "sql" of a repaired output (introspect_sql is
\* run in step 2 alone), so repair responses carry no introspection query.
RepairResponses ==
    {r \in Responses : r.kind = "object" => r.introspect_sql = JNull}

\* LLMService.chat: the provider's text, or _fallback_chat's text when the
\* provider raised (the except clause) or none is configured.
Chat(resp) == resp \in Responses

\* json.loads raises JSONDecodeError.
JSONDecodeError(resp) == resp.kind \in {"fallback", "prose"}

\* dict.get(key, default)
Get(obj, key, default) == IF obj[key] = JAbsent THEN default ELSE obj[key]

\* Python truthiness of a JSON value under `if x:`
Truthy(v) == v.t = "str" /\ v.v # <<>>

\* SQLQueryGenerator._execute_sql: never raises; the store decides the outcome.
ExecOutcomes ==
    {[success |-> TRUE, exec_error |-> "None", row_count |-> 1],
     [success |-> FALSE, exec_error |-> "error", row_count |-> 0]}

NoOutput == [kind |-> "unset"]
NoResult == [kind |-> "unset"]
NoExec == [success |-> FALSE, exec_error |-> "unset", row_count |-> 0]

Backends == {SQL_BACKEND_OLLAMA, SQL_BACKEND_SQLCODER, SQL_BACKEND_CUSTOM, "other"}
MaxRepairsValues == (-1)..MaxRepairsBound

(***************************************************************************)
(* SQLQueryGenerator.generate_query                                        *)
(***************************************************************************)
\* Mutant: the budget test is off by one.
LoopCondition_OffByOne(er, pf, rc, mr) == (~er.success \/ pf # <<>>) /\ rc <= mr

\* while (not exec_result["success"] or policy_failures) and repair_count < max_repairs
LoopCondition(er, pf, rc, mr) == (~er.success \/ pf # <<>>) /\ rc < mr

\* Mutant: success ignores the outstanding policy violations.
FinalSuccess_ExecOnly(er, pf) == er.success

\* final_success = exec_result["success"] and not policy_failures
FinalSuccess(er, pf) == er.success /\ pf = <<>>

\* {"llm_output": ..., "exec_result": ..., "policy_failures": ...}
Attempt(out, er, pf) == [llm_output |-> out, exec_result |-> er, policy_failures |-> pf]

\* Mutant: the history keeps only the newest attempt.
AppendAttempt_Overwrite(atts, a) == <<a>>

\* attempts.append(...)
AppendAttempt(atts, a) == Append(atts, a)

\* Mutant: the aborted session reports one attempt.
ParseAbortResult_OneAttempt ==
    [success |-> FALSE, sql |-> JNull, error |-> "Failed to parse LLM JSON response",
     policy_failures |-> <<>>, attempts |-> 1, repair_history |-> <<>>]

\* The dict returned on json.JSONDecodeError in the initial generation.
ParseAbortResult ==
    [success |-> FALSE, sql |-> JNull, error |-> "Failed to parse LLM JSON response",
     policy_failures |-> <<>>, attempts |-> 0, repair_history |-> <<>>]

\* The dict returned after the repair loop.
FinalResult(s, er, pf, atts) ==
    [success |-> FinalSuccess(er, pf), sql |-> JStr(s), error |-> er.exec_error,
     policy_failures |-> pf, attempts |-> Len(atts), repair_history |-> atts]

\* _execute_sql(text) seen from the store: the text is appended to the log.
Executed(log, text, role) == Append(log, [sql |-> text, role |-> role])

\* _create_repair_prompt(...): what the prompt embeds.
RepairPrompt(out, er, pf, n) ==
    [kind |-> "repair", previous_output |-> out, exec_error |-> er.exec_error,
     policy_failures |-> pf, after |-> n]

InitialPrompt(t) == [kind |-> "initial", task |-> t]

SqlInit ==
    /\ task \in Tasks
    /\ max_repairs \in MaxRepairsValues
    /\ backend \in Backends
    /\ pc = "start"
    /\ llm_output = NoOutput
    /\ sql = <<>>
    /\ policy_failures = <<>>
    /\ exec_result = NoExec
    /\ attempts = <<>>
    /\ repair_count = 0
    /\ result = NoResult
    /\ exit = "none"
    /\ executed = <<>>
    /\ prompts = <<>>
    /\ received = <<>>

\* The call raises to its caller: no result record exists.
Raise ==
    /\ pc' = "raised"
    /\ UNCHANGED <<sql, policy_failures, exec_result, attempts, repair_count, result, exit>>

\* Steps 2 and 3 on the parsed output `out`, with `log` the executor log so far.
ValidateAndExecuteInitial(out) ==
    LET log1 == IF Truthy(out.introspect_sql)
                THEN Executed(executed, out.introspect_sql.v, "introspect")
                ELSE executed
        s == Get(out, "sql", JStr(<<>>))
    IN  /\ llm_output' = out
        /\ \/ /\ s = JNull                 \* sql.upper() on None: AttributeError
              /\ executed' = log1
              /\ Raise
           \/ /\ s # JNull
              /\ \E er \in ExecOutcomes :
                   /\ sql' = s.v
                   /\ policy_failures' = ValidatePolicy(s.v, task)
                   /\ exec_result' = er
                   /\ executed' = Executed(log1, s.v, "primary")
                   /\ attempts' = AppendAttempt(<<>>, Attempt(out, er, policy_failures'))
                   /\ pc' = "loop"
                   /\ UNCHANGED <<repair_count, result, exit>>

\* Step 1 with backend 'ollama': _generate_with_ollama.
GenerateOllama ==
    /\ pc = "start"
    /\ backend = SQL_BACKEND_OLLAMA
    /\ prompts' = Append(prompts, InitialPrompt(task))
    /\ \E resp \in Responses :
         /\ Chat(resp)
         /\ received' = Append(received, resp.kind)
         /\ \/ /\ JSONDecodeError(resp)
               /\ result' = ParseAbortResult
               /\ pc' = "returned"
               /\ UNCHANGED <<llm_output, sql, policy_failures, exec_result, attempts,
                              repair_count, exit, executed>>
            \/ /\ resp.kind = "scalar"     \* llm_output.get on a non-dict: AttributeError
               /\ llm_output' = resp
               /\ Raise
               /\ UNCHANGED executed
            \/ /\ resp.kind = "object"
               /\ ValidateAndExecuteInitial(resp)
    /\ UNCHANGED <<task, max_repairs, backend>>
    /\ UNCHANGED OutsideSql

\* Step 1 with backend 'sqlcoder' or 'custom': the local model returns a
\* query text, or raises (ImportError -> RuntimeError, or any Exception re-raised).
GenerateLocalModel ==
    /\ pc = "start"
    /\ backend \in {SQL_BACKEND_SQLCODER, SQL_BACKEND_CUSTOM}
    /\ \/ /\ Raise
          /\ UNCHANGED <<llm_output, executed>>
       \/ \E q \in SqlTexts :
            ValidateAndExecuteInitial([kind |-> "object", introspect_sql |-> JNull,
                                       sql |-> JStr(q)])
    /\ UNCHANGED <<task, max_repairs, backend, prompts, received>>
    /\ UNCHANGED OutsideSql

\* Step 1 with any other backend: raise ValueError("Unknown SQL backend").
GenerateUnknownBackend ==
    /\ pc = "start"
    /\ backend \notin {SQL_BACKEND_OLLAMA, SQL_BACKEND_SQLCODER, SQL_BACKEND_CUSTOM}
    /\ Raise
    /\ UNCHANGED <<task, max_repairs, backend, llm_output, executed, prompts, received>>
    /\ UNCHANGED OutsideSql

\* One iteration of the repair loop.
RepairRound ==
    /\ pc = "loop"
    /\ LoopCondition(exec_result, policy_failures, repair_count, max_repairs)
    /\ repair_count' = repair_count + 1
    /\ prompts' = Append(prompts, RepairPrompt(llm_output, exec_result, policy_failures,
                                               Len(attempts)))
    /\ \E resp \in RepairResponses :
         /\ Chat(resp)
         /\ received' = Append(received, resp.kind)
         /\ \/ /\ JSONDecodeError(resp)    \* except json.JSONDecodeError: break
               /\ exit' = "break"
               /\ result' = FinalResult(sql, exec_result, policy_failures, attempts)
               /\ pc' = "returned"
               /\ UNCHANGED <<llm_output, sql, policy_failures, exec_result, attempts,
                              executed>>
            \/ /\ resp.kind = "scalar"
               /\ llm_output' = resp
               /\ pc' = "raised"
               /\ UNCHANGED <<sql, policy_failures, exec_result, attempts, result, exit,
                              executed>>
            \/ /\ resp.kind = "object"
               /\ llm_output' = resp
               /\ LET s == Get(resp, "sql", JStr(<<>>))
                  IN  \/ /\ s = JNull
                         /\ pc' = "raised"
                         /\ UNCHANGED <<sql, policy_failures, exec_result, attempts,
                                        result, exit, executed>>
                      \/ /\ s # JNull
                         /\ \E er \in ExecOutcomes :
                              /\ sql' = s.v
                              /\ policy_failures' = ValidatePolicy(s.v, task)
                              /\ exec_result' = er
                              /\ executed' = Executed(executed, s.v, "primary")
                              /\ attempts' = AppendAttempt(attempts,
                                     Attempt(resp, er, policy_failures'))
                              /\ pc' = "loop"
                              /\ UNCHANGED <<result, exit>>
    /\ UNCHANGED <<task, max_repairs, backend>>
    /\ UNCHANGED OutsideSql

\* The loop condition is false: build the final result and return it.
ReturnFinal ==
    /\ pc = "loop"
    /\ ~LoopCondition(exec_result, policy_failures, repair_count, max_repairs)
    /\ exit' = "cond"
    /\ result' = FinalResult(sql, exec_result, policy_failures, attempts)
    /\ pc' = "returned"
    /\ UNCHANGED <<task, max_repairs, backend, llm_output, sql, policy_failures,
                   exec_result, attempts, repair_count, executed, prompts, received>>
    /\ UNCHANGED OutsideSql

SqlNext ==
    \/ GenerateOllama
    \/ GenerateLocalModel
    \/ GenerateUnknownBackend
    \/ RepairRound
    \/ ReturnFinal

\* HTMLParser() as constructed: parse has not yet set any attribute.
FreshHTMLParser ==
    [has_components |-> FALSE, components |-> <<>>,
     has_incidents |-> FALSE, incidents |-> <<>>]

NoCall == [kind |-> "none"]

\* parser_factory = ParserFactory() at import: no parse_url call made yet.
ParseInit ==
    /\ html_parser = FreshHTMLParser
    /\ last_parse = NoCall

\* The sites table as the scheduler reads it: active sites that are polled.
SiteIds == {"github", "slack"}

Origins == {"job", "task", "now"}

NoPolls == [site_id \in SiteIds |-> [origin \in Origins |-> 0]]

\* polling_scheduler = PollingScheduler() at import, then start(): the
\* scheduler runs with an empty job store and nothing is being polled.
SchedInit ==
    /\ jobs = {}
    /\ instances = [site_id \in SiteIds |-> 0]
    /\ tasks = [site_id \in SiteIds |-> 0]
    /\ polling = NoPolls

\* The coroutines that may run process_site_advisories at the same time.
Callers == {"poll_a", "poll_b"}

IdleCall == [pc |-> "idle", site_id |-> "", todo |-> <<>>, created |-> <<>>]

\* an empty advisories table and no call in progress
AdvInit ==
    /\ advisories = <<>>
    /\ proc = [caller \in Callers |-> IdleCall]
    /\ analysed = {}
    /\ calls = 0

NoReading == [kind |-> "none"]

\* no module configured and no reading stored
PollInit ==
    /\ enabled_modules = <<>>
    /\ last_reading = NoReading

Pending == [kind |-> "pending"]

None == [t |-> "none"]

\* Optional[...] holding a value
Some(v) == [t |-> "some", v |-> v]

\* a site that was never notified about
NoSite == [last_notified_at |-> None, last_notified_status |-> None]

\* no poll_site call yet
NoPoll ==
    [pc |-> "idle", id |-> 0, failed |-> None, old_status |-> "unset",
     new_status |-> "unset", provider |-> "unset", analysis |-> "unset",
     advisory_error |-> None,
     notify |-> FALSE, success |-> FALSE]

PipeInit ==
    /\ readings = <<>>
    /\ site_row = NoSite
    /\ poll = NoPoll
    /\ sent = <<>>
    /\ email_configured = TRUE

\* datetime.utcnow() when the model starts, as an hour count
UtcNow == 10000

ClockInit == utcnow = UtcNow

\* no function called
FnInit ==
    /\ fn_call = [fn |-> "none"]
    /\ fn_return = Pending
    /\ fn_previous = Pending

Init == SqlInit /\ ParseInit /\ ClockInit /\ PipeInit /\ SchedInit /\ AdvInit /\ PollInit /\ FnInit

Next == SqlNext

Spec == Init /\ [][Next]_vars

(***************************************************************************)
(* Properties of the generation session.                                   *)
(***************************************************************************)
Max0(n) == IF n < 0 THEN 0 ELSE n
Terminal == pc \in {"returned", "raised"}
Returned == pc = "returned"
Last(seq) == seq[Len(seq)]
InSeq(x, seq) == \E i \in 1..Len(seq) : seq[i] = x

\* zero policy violations and a successful execution
AttemptOk(a) == a.exec_result.success /\ a.policy_failures = <<>>

\* the query text of a recorded attempt: llm_output.get("sql", "")
AttemptSql(a) == Get(a.llm_output, "sql", JStr(<<>>)).v

\* the primary texts handed to the executor, in order
PrimaryLog == SelectSeq(executed, LAMBDA e : e.role = "primary")

\* the repair prompts sent, in order
RepairPrompts == SelectSeq(prompts, LAMBDA q : q.kind = "repair")

\* the loop ended on its condition with the last attempt still failing
Exhausted == Returned /\ exit = "cond" /\ ~result.success

\* Steps left before the call must have ended.
Measure ==
    IF Terminal THEN 0
    ELSE IF pc = "start" THEN Max0(max_repairs) + 3
    ELSE Max0(max_repairs) - repair_count + 2

\* C1 (as stated): every returned session recorded at most max_repairs + 1
\* attempts, for any max_repairs.
C1_Original == Returned => Len(attempts) <= max_repairs + 1

\* C1 (amended): the session terminates (every step strictly decreases a
\* natural-number measure and only a finished call has no step left), and the
\* number of attempts recorded in repair_history is at most
\* max(max_repairs, 0) + 1.
C1_Bounded ==
    /\ [](/\ Len(attempts) <= Max0(max_repairs) + 1
          /\ (Returned => Len(result.repair_history) <= Max0(max_repairs) + 1)
          /\ Measure >= 0
          /\ (Terminal \/ ENABLED Next))
    /\ [][Measure' < Measure]_vars

C1_Witness ==
    /\ Returned
    /\ max_repairs = MaxRepairsBound
    /\ Len(result.repair_history) = max_repairs + 1

\* C2 (as stated): no primary sql is handed to the executor while
\* _validate_policy reports violations for it; every executed attempt of the
\* history has empty policy_failures.
C2_NoViolatingExecution ==
    /\ \A k \in 1..Len(executed) :
          executed[k].role = "primary" => ValidatePolicy(executed[k].sql, task) = <<>>
    /\ \A i \in 1..Len(attempts) : attempts[i].policy_failures = <<>>

\* C3: the result is a success exactly when the last recorded attempt executed
\* successfully with no policy violation, and no repair round is issued after
\* such an attempt (every attempt but the last, and every attempt a repair
\* prompt was built from, failed).
C3_StopsAtFirstSuccess ==
    /\ Returned =>
          (result.success <=>
              (Len(result.repair_history) > 0 /\ AttemptOk(Last(result.repair_history))))
    /\ \A i \in 1..(Len(attempts) - 1) : ~AttemptOk(attempts[i])
    /\ \A k \in 1..Len(RepairPrompts) :
          /\ RepairPrompts[k].after \in 1..Len(attempts)
          /\ ~AttemptOk(attempts[RepairPrompts[k].after])
          /\ (RepairPrompts[k].exec_error # "None" \/ RepairPrompts[k].policy_failures # <<>>)

C3_Witness ==
    /\ Returned
    /\ result.success
    /\ Len(result.repair_history) >= 2

\* The parts of C4 that do not name the budget.
C4_HistoryFaithful ==
    /\ result.attempts = Len(result.repair_history)
    /\ Len(result.repair_history) = Len(PrimaryLog)
    /\ \A i \in 1..Len(PrimaryLog) :
          AttemptSql(result.repair_history[i]) = PrimaryLog[i].sql
    /\ LET last == Last(result.repair_history)
       IN  /\ result.sql = JStr(AttemptSql(last))
           /\ result.error = last.exec_result.exec_error
           /\ result.policy_failures = last.policy_failures

\* C4 (as stated): ... and when the budget is exhausted the history has
\* exactly max_repairs + 1 entries.
C4_Original ==
    (Returned /\ Len(PrimaryLog) >= 1) =>
        /\ C4_HistoryFaithful
        /\ (Exhausted => Len(result.repair_history) = max_repairs + 1)

\* C4 (amended): whenever generate_query returns after at least one attempt,
\* the returned attempts is the length of repair_history, repair_history holds
\* every attempt in the order it was made, the returned sql, error and
\* policy_failures are those of its last entry, and when the budget is
\* exhausted the history has exactly max(max_repairs, 0) + 1 entries.
C4_ResultMatchesHistory ==
    (Returned /\ Len(PrimaryLog) >= 1) =>
        /\ C4_HistoryFaithful
        /\ (Exhausted => Len(result.repair_history) = Max0(max_repairs) + 1)

C4_Witness ==
    /\ Exhausted
    /\ max_repairs = MaxRepairsBound
    /\ Len(result.repair_history) = max_repairs + 1
    /\ result.policy_failures # <<>>

\* C5: when the initial completion response cannot be parsed as JSON the call
\* has returned at once: nothing validated or executed, no repair prompt sent,
\* success = false, attempts = 0, sql = null, empty repair_history.
C5_ParseAbort ==
    (backend = SQL_BACKEND_OLLAMA /\ Len(received) >= 1
       /\ received[1] \in {"fallback", "prose"}) =>
        /\ Returned
        /\ executed = <<>>
        /\ attempts = <<>>
        /\ Len(prompts) = 1
        /\ RepairPrompts = <<>>
        /\ result.success = FALSE
        /\ result.attempts = 0
        /\ result.sql = JNull
        /\ result.repair_history = <<>>

C5_Witness == Returned /\ backend = SQL_BACKEND_OLLAMA /\ received = <<"prose">>

\* C6 (as stated): generate_query never raises to its caller.
C6_NeverRaises == pc # "raised"

\* C7 (as stated): every repair round leaves one more entry in the attempt
\* history, also when its completion failed or was unparsable.
C7_RoundRecorded ==
    (pc # "raised" /\ Len(attempts) >= 1) => Len(attempts) = 1 + repair_count

no_partition_by_site == "no_partition_by_site"

LacksPartitionBy(text) == ~Contains(Upper(text), <<"PARTITION", "BY">>)

\* the repair rounds whose prompt carries the tag
TaggedRounds ==
    {k \in 1..Len(RepairPrompts) : InSeq(no_partition_by_site, RepairPrompts[k].policy_failures)}

C8_Case ==
    /\ task = TaskUptime
    /\ Len(attempts) >= 1
    /\ LacksPartitionBy(AttemptSql(attempts[1]))

\* C8 (as stated, for a session that has a repair budget): ... exactly one
\* REPAIRING round carrying the tag is run before the session reaches SUCCESS
\* or EXHAUSTED.
C8_Original ==
    (C8_Case /\ max_repairs >= 1 /\ Returned /\ exit = "cond") =>
        /\ InSeq(no_partition_by_site, attempts[1].policy_failures)
        /\ Cardinality(TaggedRounds) = 1

\* C8 (amended): for that task, if the first generated query contains no
\* PARTITION BY, the first attempt's policy_failures contains
\* no_partition_by_site; a repair round carries the tag exactly when the
\* attempt it repairs lacks PARTITION BY; and once the session has ended, the
\* first repair round was run and carried the tag if max_repairs >= 1, no
\* round was run if max_repairs <= 0, and at most max_repairs rounds carry it.
C8_PartitionRepair ==
    C8_Case =>
        /\ InSeq(no_partition_by_site, attempts[1].policy_failures)
        /\ \A k \in 1..Len(RepairPrompts) :
              (k \in TaggedRounds) <=>
                  LacksPartitionBy(AttemptSql(attempts[RepairPrompts[k].after]))
        /\ Cardinality(TaggedRounds) <= Max0(max_repairs)
        /\ (Terminal /\ max_repairs >= 1) => 1 \in TaggedRounds
        /\ max_repairs <= 0 => RepairPrompts = <<>>

C8_Witness ==
    /\ C8_Case
    /\ Returned
    /\ result.success
    /\ Cardinality(TaggedRounds) = 1

\* The read-only part of the policy: no forbidden token, one statement, no
\* DDL/DML keyword.
ReadOnlyPolicy(text) ==
    /\ ForbiddenFailures(Upper(text)) = <<>>
    /\ ~MultiStatement(text)
    /\ DdlDmlFailures(Upper(text)) = <<>>

\* C29: an introspect_sql text is handed to the executor only if it satisfies
\* the policy of the primary query (no forbidden token, single statement, no
\* DDL/DML keyword).
C29_IntrospectValidated ==
    \A k \in 1..Len(executed) :
        executed[k].role = "introspect" => ReadOnlyPolicy(executed[k].sql)

\* A session that ran a destructive introspection query and then succeeded
\* with a compliant primary query.
C29_DropExecuted ==
    /\ Returned
    /\ result.success
    /\ Len(executed) = 2
    /\ executed[1] = [sql |-> QDrop, role |-> "introspect"]
    /\ ValidatePolicy(executed[2].sql, task) = <<>>

(***************************************************************************)
(* Part II.  utils/normalizer.py, parsers/*.py                             *)
(*                                                                         *)
(* Status texts are sequences of characters, so that re.search(pattern,    *)
(* text) with the literal patterns of STATUS_PATTERNS is Contains.         *)
(***************************************************************************)
\* StatusType
OPERATIONAL == "operational"
DEGRADED == "degraded"
INCIDENT == "incident"
MAINTENANCE == "maintenance"
RECENTLY_RESOLVED == "recently_resolved"
UNKNOWN == "unknown"

\* ParserType
AUTO == "auto"
RSS == "rss"
JSON == "json"
HTML == "html"
ParserTypes == {AUTO, RSS, JSON, HTML}

\* STATUS_PATTERNS, in declaration order.
STATUS_PATTERNS ==
    <<       [status |-> OPERATIONAL, patterns |-> <<
            <<"o", "p", "e", "r", "a", "t", "i", "o", "n", "a", "l">>,
            <<"a", "l", "l", " ", "s", "y", "s", "t", "e", "m", "s", " ", "o", "p", "e", "r", "a", "t", "i", "o", "n", "a", "l">>,
            <<"n", "o", " ", "i", "s", "s", "u", "e", "s">>,
            <<"n", "o", "r", "m", "a", "l">>,
            <<"o", "k">>,
            <<"u", "p">>,
            <<"a", "v", "a", "i", "l", "a", "b", "l", "e">>,
            <<"h", "e", "a", "l", "t", "h", "y">>,
            <<"n", "o", "n", "e">> >>],
       [status |-> DEGRADED, patterns |-> <<
            <<"d", "e", "g", "r", "a", "d", "e", "d">>,
            <<"p", "a", "r", "t", "i", "a", "l">>,
            <<"m", "i", "n", "o", "r">>,
            <<"i", "n", "v", "e", "s", "t", "i", "g", "a", "t", "i", "n", "g">>,
            <<"i", "d", "e", "n", "t", "i", "f", "i", "e", "d">>,
            <<"m", "o", "n", "i", "t", "o", "r", "i", "n", "g">>,
            <<"p", "e", "r", "f", "o", "r", "m", "a", "n", "c", "e", " ", "i", "s", "s", "u", "e", "s">> >>],
       [status |-> INCIDENT, patterns |-> <<
            <<"m", "a", "j", "o", "r", " ", "o", "u", "t", "a", "g", "e">>,
            <<"d", "o", "w", "n">>,
            <<"o", "u", "t", "a", "g", "e">>,
            <<"i", "n", "c", "i", "d", "e", "n", "t">>,
            <<"c", "r", "i", "t", "i", "c", "a", "l">>,
            <<"s", "e", "r", "v", "i", "c", "e", " ", "d", "i", "s", "r", "u", "p", "t", "i", "o", "n">>,
            <<"m", "a", "j", "o", "r">> >>],
       [status |-> MAINTENANCE, patterns |-> <<
            <<"m", "a", "i", "n", "t", "e", "n", "a", "n", "c", "e">>,
            <<"s", "c", "h", "e", "d", "u", "l", "e", "d">>,
            <<"p", "l", "a", "n", "n", "e", "d", " ", "w", "o", "r", "k">> >>] >>

\* str.lower() on one character.
LowerChar(c) ==
    CASE c = "A" -> "a"
      [] c = "B" -> "b"
      [] c = "C" -> "c"
      [] c = "D" -> "d"
      [] c = "E" -> "e"
      [] c = "F" -> "f"
      [] c = "G" -> "g"
      [] c = "H" -> "h"
      [] c = "I" -> "i"
      [] c = "J" -> "j"
      [] c = "K" -> "k"
      [] c = "L" -> "l"
      [] c = "M" -> "m"
      [] c = "N" -> "n"
      [] c = "O" -> "o"
      [] c = "P" -> "p"
      [] c = "Q" -> "q"
      [] c = "R" -> "r"
      [] c = "S" -> "s"
      [] c = "T" -> "t"
      [] c = "U" -> "u"
      [] c = "V" -> "v"
      [] c = "W" -> "w"
      [] c = "X" -> "x"
      [] c = "Y" -> "y"
      [] c = "Z" -> "z"
      [] OTHER -> c

LowerStr(s) == [i \in 1..Len(s) |-> LowerChar(s[i])]

Whitespace == {" ", "\n", "\t", "\r"}

\* str.strip()
RECURSIVE Strip(_)
Strip(s) ==
    IF s = <<>> THEN s
    ELSE IF Head(s) \in Whitespace THEN Strip(Tail(s))
    ELSE IF s[Len(s)] \in Whitespace THEN Strip(SubSeq(s, 1, Len(s) - 1))
    ELSE s

\* Mutant: a text without any pattern gets no status at all.
FirstMatch_NoDefault(hit) == IF hit = <<>> THEN "" ELSE hit[1].status

\* the status of the first entry of STATUS_PATTERNS with a pattern found in text
FirstMatch(hit) == IF hit = <<>> THEN UNKNOWN ELSE hit[1].status

MatchStatus(text_lower) ==
    FirstMatch(SelectSeq(STATUS_PATTERNS, LAMBDA e : AnyIn(e.patterns, text_lower)))

\* normalize_status(status_text)
normalize_status(status_text) ==
    IF status_text = <<>> THEN UNKNOWN
    ELSE MatchStatus(Strip(LowerStr(status_text)))

\* Mutant: the first component decides.
normalize_component_statuses_First(components) ==
    IF components = <<>> THEN UNKNOWN
    ELSE normalize_status(Get(components[1], "status", JStr(<<>>)).v)

\* normalize_component_statuses(components)
normalize_component_statuses(components) ==
    IF components = <<>> THEN UNKNOWN
    ELSE LET statuses ==
                 {normalize_status(Get(components[i], "status", JStr(<<>>)).v) :
                     i \in 1..Len(components)}
         IN  IF INCIDENT \in statuses THEN INCIDENT
             ELSE IF DEGRADED \in statuses THEN DEGRADED
             ELSE IF MAINTENANCE \in statuses THEN MAINTENANCE
             ELSE IF OPERATIONAL \in statuses THEN OPERATIONAL
             ELSE UNKNOWN

\* Values a parser or parse_url hands back.
Lit(s) == [t |-> "lit", lit |-> s]                      \* a literal string
Fmt(s, arg) == [t |-> "fmt", lit |-> s, arg |-> arg]    \* an f-string and its argument
Returns(v) == [ok |-> TRUE, value |-> v]
Raises(type, msg) == [ok |-> FALSE, type |-> type, msg |-> msg]

JObj(fields) == [t |-> "obj", v |-> fields]
JList(items) == [t |-> "list", v |-> items]

(***************************************************************************)
(* parsers/json_parser.py                                                  *)
(***************************************************************************)
\* JSONParser._map_indicator_to_status
map_indicator_to_status(indicator) ==
    CASE indicator = <<"n", "o", "n", "e">> -> OPERATIONAL
      [] indicator = <<"m", "i", "n", "o", "r">> -> DEGRADED
      [] indicator = <<"m", "a", "j", "o", "r">> -> INCIDENT
      [] indicator = <<"c", "r", "i", "t", "i", "c", "a", "l">> -> INCIDENT
      [] indicator = <<"m", "a", "i", "n", "t", "e", "n", "a", "n", "c", "e">> -> MAINTENANCE
      [] OTHER -> UNKNOWN

\* JSONParser._parse_timestamp: a datetime, or None when fromisoformat fails.
parse_timestamp(ts) == IF ts.t = "time" THEN ts ELSE None

\* extract_summary(data, "json")
extract_summary_json(data) ==
    LET desc == IF data.status.t = "obj"
                THEN Get(data.status.v, "description", JStr(<<>>))
                ELSE JStr(<<>>)
    IN  IF Truthy(desc) THEN desc
        ELSE IF data.incidents # JAbsent /\ data.incidents.v # <<>>
             THEN Get(data.incidents.v[1], "name", Lit("Active incident"))
        ELSE Lit("All systems operational")

generic_status_keys == <<"status", "state", "health", "overall_status">>

\* JSONParser.parse(content, url); content.json is what json.loads gives:
\* "invalid" (JSONDecodeError), a number, or an object with the keys read here.
JSONParse(content, url) ==
    IF content.json = "invalid" THEN Raises("ValueError", Fmt("Invalid JSON: ", "JSONDecodeError"))
    ELSE IF content.json = "number"
    THEN Raises("TypeError", Lit("argument of type 'int' is not iterable"))
    ELSE LET data == content.data IN
    IF data.status # JAbsent
    THEN \* status_data = data.get("status", {}); status_data.get(...)
         IF data.status.t # "obj"
         THEN Raises("AttributeError", Lit("'str' object has no attribute 'get'"))
         ELSE LET status_data == data.status.v
                  indicator == LowerStr(Get(status_data, "indicator", JStr(<<>>)).v)
                  status0 == map_indicator_to_status(indicator)
                  components == Get(data, "components", JList(<<>>)).v
                  component_status == normalize_component_statuses(components)
                  status == IF components # <<>> /\ component_status # OPERATIONAL
                            THEN component_status ELSE status0
                  last_changed == IF status_data.updated_at # JAbsent
                                  THEN parse_timestamp(status_data.updated_at)
                                  ELSE None
              IN  Returns([status |-> status, summary |-> extract_summary_json(data),
                           raw_data |-> data, last_changed_at |-> last_changed])
    ELSE LET present == SelectSeq(generic_status_keys, LAMBDA k : data[k] # JAbsent)
             status == IF present = <<>> THEN UNKNOWN
                       ELSE normalize_status(data[present[1]].v)
         IN  Returns([status |-> status, summary |-> Lit("Status information retrieved"),
                      raw_data |-> data, last_changed_at |-> None])

\* JSONParser.can_parse(content_type, content)
JSONCanParse(content_type, content) ==
    \/ Contains(LowerStr(content_type), <<"j", "s", "o", "n">>)
    \/ content.json # "invalid"    \* json.loads(content) succeeds

(***************************************************************************)
(* parsers/rss_parser.py: RSSParser.can_parse                              *)
(***************************************************************************)
\* RSSParser.can_parse(content_type, content)
RSSCanParse(content_type, content) ==
    \/ AnyIn(<<<<"x", "m", "l">>, <<"r", "s", "s">>, <<"a", "t", "o", "m">>>>, LowerStr(content_type))
    \/ LET n == IF Len(content.head) < 5 THEN Len(content.head) ELSE 5
       IN  SubSeq(Strip(content.head), 1, n) = <<"<", "?", "x", "m", "l">>
    \/ Contains(content.head, <<"<", "r", "s", "s">>)
    \/ Contains(content.head, <<"<", "f", "e", "e", "d">>)


(***************************************************************************)
(* String operations of str and re used by the HTML scraper                *)
(***************************************************************************)
Digits == {"0", "1", "2", "3", "4", "5", "6", "7", "8", "9"}
UpperLetters ==
    {"A", "B", "C", "D", "E", "F", "G", "H", "I", "J", "K", "L", "M",
     "N", "O", "P", "Q", "R", "S", "T", "U", "V", "W", "X", "Y", "Z"}
\* \w
IsWordChar(c) ==
    \/ c \in Digits \/ c \in UpperLetters \/ c = "_"
    \/ \E u \in UpperLetters : LowerChar(u) = c

Min(a, b) == IF a < b THEN a ELSE b
Max(a, b) == IF a > b THEN a ELSE b

\* s[:n]
Take(s, n) == SubSeq(s, 1, Min(n, Len(s)))

\* s.startswith(p)
StartsWith(s, p) == Len(s) >= Len(p) /\ SubSeq(s, 1, Len(p)) = p

\* pat occurs in text at index i
OccursAt(text, pat, i) ==
    /\ i >= 1
    /\ i + Len(pat) - 1 <= Len(text)
    /\ SubSeq(text, i, i + Len(pat) - 1) = pat

\* str.find (1-based; 0 when absent)
IndexOf(text, pat) ==
    LET at == {i \in 1..Len(text) : OccursAt(text, pat, i)}
    IN  IF at = {} THEN 0 ELSE CHOOSE i \in at : \A j \in at : i <= j

\* len(re.findall(word, text)) for a literal word
Count(text, pat) == Cardinality({i \in 1..Len(text) : OccursAt(text, pat, i)})

\* str.split(sep) for a one-character separator
RECURSIVE Split(_, _)
Split(s, sep) ==
    LET at == {i \in 1..Len(s) : s[i] = sep}
    IN  IF at = {} THEN <<s>>
        ELSE LET i == CHOOSE k \in at : \A j \in at : k <= j
             IN  <<SubSeq(s, 1, i - 1)>> \o Split(SubSeq(s, i + 1, Len(s)), sep)

\* sep.join(parts)
RECURSIVE Join(_, _)
Join(parts, sep) ==
    IF parts = <<>> THEN <<>>
    ELSE IF Len(parts) = 1 THEN parts[1]
    ELSE parts[1] \o sep \o Join(Tail(parts), sep)

\* text.replace(old, '', 1)
Replace1(text, old) ==
    LET i == IndexOf(text, old)
    IN  IF i = 0 \/ old = <<>> THEN text
        ELSE SubSeq(text, 1, i - 1) \o SubSeq(text, i + Len(old), Len(text))

\* \b between text[i-1] and text[i]
WordBoundary(text, i) ==
    LET before == i > 1 /\ i - 1 <= Len(text) /\ IsWordChar(text[i - 1])
        after == i >= 1 /\ i <= Len(text) /\ IsWordChar(text[i])
    IN  before # after

\* re.search(r'\bword\b', text)
WordSearch(text, word) ==
    \E i \in 1..Len(text) :
        /\ OccursAt(text, word, i)
        /\ WordBoundary(text, i)
        /\ WordBoundary(text, i + Len(word))

\* index of the last character of the run of digits that starts at i
RECURSIVE DigitRunEnd(_, _)
DigitRunEnd(text, i) ==
    IF i + 1 <= Len(text) /\ text[i + 1] \in Digits THEN DigitRunEnd(text, i + 1) ELSE i

\* re.search(r'\b([A-Z]{2}\d{6,})\b', text).group(1), or <<>> without a match
IdMatch(text) ==
    LET ok(i) == /\ i + 2 <= Len(text)
                 /\ WordBoundary(text, i)
                 /\ text[i] \in UpperLetters /\ text[i + 1] \in UpperLetters
                 /\ text[i + 2] \in Digits
                 /\ DigitRunEnd(text, i + 2) - (i + 2) + 1 >= 6
                 /\ WordBoundary(text, DigitRunEnd(text, i + 2) + 1)
        at == {i \in 1..Len(text) : ok(i)}
    IN  IF at = {} THEN <<>>
        ELSE LET i == CHOOSE k \in at : \A j \in at : k <= j
             IN  SubSeq(text, i, DigitRunEnd(text, i + 2))

\* A shape is a sequence of "d" (one digit) and literal characters.
ShapeAt(text, shape, i) ==
    /\ i + Len(shape) - 1 <= Len(text)
    /\ \A k \in 1..Len(shape) :
           IF shape[k] = "d" THEN text[i + k - 1] \in Digits
           ELSE text[i + k - 1] = shape[k]

\* (\d{1,2}/\d{1,2}/\d{4}|\d{4}-\d{2}-\d{2}) as the alternatives the regex
\* engine tries at one position, in its order (greedy first).
date_shapes ==
    <<<<"d", "d", "/", "d", "d", "/", "d", "d", "d", "d">>, <<"d", "d", "/", "d", "/", "d", "d", "d", "d">>, <<"d", "/", "d", "d", "/", "d", "d", "d", "d">>, <<"d", "/", "d", "/", "d", "d", "d", "d">>, <<"d", "d", "d", "d", "-", "d", "d", "-", "d", "d">>>>

\* re.search(date pattern, text).group(1), or <<>> without a match
DateMatch(text) ==
    LET hits(i) == SelectSeq(date_shapes, LAMBDA sh : ShapeAt(text, sh, i))
        at == {i \in 1..Len(text) : hits(i) # <<>>}
    IN  IF at = {} THEN <<>>
        ELSE LET i == CHOOSE k \in at : \A j \in at : k <= j
             IN  SubSeq(text, i, i + Len(hits(i)[1]) - 1)

DigitValue(c) ==
    CASE c = "0" -> 0 [] c = "1" -> 1 [] c = "2" -> 2 [] c = "3" -> 3 [] c = "4" -> 4
      [] c = "5" -> 5 [] c = "6" -> 6 [] c = "7" -> 7 [] c = "8" -> 8 [] c = "9" -> 9

\* int(digits)
RECURSIVE ToInt(_)
ToInt(digits) ==
    IF digits = <<>> THEN 0
    ELSE 10 * ToInt(SubSeq(digits, 1, Len(digits) - 1)) + DigitValue(digits[Len(digits)])

\* sum(int(m) for m in re.findall(r'(\d+)\s+advisor(?:y|ies)', text, re.I)),
\* and whether findall found anything
AdvisoryMentions(text) ==
    LET lower == LowerStr(text)
        \* start of the digit run of a match that begins at i
        ok(i) == /\ text[i] \in Digits
                 /\ (i = 1 \/ text[i - 1] \notin Digits)
                 /\ LET e == DigitRunEnd(text, i)
                        rest == SubSeq(lower, e + 1, Len(lower))
                        word == Strip(rest)
                    IN  /\ rest # <<>> /\ Head(rest) \in Whitespace
                        /\ \/ StartsWith(word, <<"a", "d", "v", "i", "s", "o", "r", "y">>)
                           \/ StartsWith(word, <<"a", "d", "v", "i", "s", "o", "r", "i", "e", "s">>)
        at == {i \in 1..Len(text) : ok(i)}
    IN  at

RECURSIVE SumInts(_, _)
SumInts(text, at) ==
    IF at = {} THEN 0
    ELSE LET i == CHOOSE k \in at : TRUE
         IN  ToInt(SubSeq(text, i, DigitRunEnd(text, i))) + SumInts(text, at \ {i})

(***************************************************************************)
(* parsers/rss_parser.py: RSSParser.parse                                  *)
(*                                                                         *)
(* An entry is what feedparser delivers: title, summary, link and, when it *)
(* could read the date, published_parsed.  Times are whole hours.          *)
(***************************************************************************)
\* feed.entries[:20]
EntryLimit == 20

\* is_recent = 0 <= hours_ago < 24
RecentHours == 24

\* text.replace(old, new)
RECURSIVE ReplaceAll(_, _, _)
ReplaceAll(text, old, new) ==
    IF IndexOf(text, old) = 0 THEN text
    ELSE SubSeq(text, 1, IndexOf(text, old) - 1) \o new
         \o ReplaceAll(SubSeq(text, IndexOf(text, old) + Len(old), Len(text)), old, new)

\* a match of <[^>]+> starts at index i
TagAt(text, i) ==
    /\ text[i] = "<"
    /\ i + 1 <= Len(text) /\ text[i + 1] # ">"
    /\ \E j \in (i + 2)..Len(text) : text[j] = ">"

First(indices) == CHOOSE i \in indices : \A j \in indices : i <= j

\* re.sub(r'<[^>]+>', '', text)
RECURSIVE RemoveTags(_)
RemoveTags(text) ==
    IF \A i \in 1..Len(text) : ~TagAt(text, i) THEN text
    ELSE SubSeq(text, 1, First({i \in 1..Len(text) : TagAt(text, i)}) - 1)
         \o RemoveTags(SubSeq(text,
                First({j \in (First({i \in 1..Len(text) : TagAt(text, i)}) + 2)..Len(text) :
                          text[j] = ">"}) + 1,
                Len(text)))

\* strip_html(text)
strip_html(text) ==
    IF text = <<>> THEN <<>>
    ELSE Strip(
        ReplaceAll(ReplaceAll(ReplaceAll(ReplaceAll(ReplaceAll(ReplaceAll(
            RemoveTags(text),
            <<"&", "l", "t", ";">>, <<"<">>), <<"&", "g", "t", ";">>, <<">">>), <<"&", "a", "m", "p", ";">>, <<"&">>), <<"&", "q", "u", "o", "t", ";">>, <<"\"">>), <<"&", "a", "p", "o", "s", ";">>, <<"'">>),
            <<"&", "n", "b", "s", "p", ";">>, <<" ">>))

\* RSSParser._parse_entry_date(entry)
parse_entry_date(entry) ==
    IF entry.published_parsed # JAbsent THEN entry.published_parsed ELSE None

\* (datetime.utcnow() - published_date).total_seconds() / 3600
HoursAgo(entry) == utcnow - parse_entry_date(entry).v

\* Mutant: an incident is recent for three hours.
IsRecent_Narrow(entry) ==
    /\ entry.published_parsed # JAbsent
    /\ 0 <= utcnow - entry.published_parsed.v /\ utcnow - entry.published_parsed.v < 3

\* Mutant: no entry is skipped for its date.
Future_Never(entry) == FALSE

\* "Skip future incidents"
Future(entry) == parse_entry_date(entry) # None /\ HoursAgo(entry) < 0

\* the incident dict of an entry
Incident(entry) ==
    [title |-> entry.title, summary |-> entry.summary,
     published |-> parse_entry_date(entry), link |-> entry.link]

IsRecent(entry) ==
    /\ parse_entry_date(entry) # None
    /\ 0 <= HoursAgo(entry) /\ HoursAgo(entry) < RecentHours

resolved_keywords == <<<<"r", "e", "s", "o", "l", "v", "e", "d">>, <<"c", "o", "m", "p", "l", "e", "t", "e", "d">>, <<"f", "i", "x", "e", "d">>, <<"c", "o", "r", "r", "e", "c", "t", "e", "d">>, <<"r", "e", "s", "t", "o", "r", "e", "d">>, <<"m", "i", "t", "i", "g", "a", "t", "e", "d">>>>

informational_keywords == <<<<"s", "c", "h", "e", "d", "u", "l", "e", "d">>, <<"u", "p", "d", "a", "t", "e", ":">>, <<"a", "n", "n", "o", "u", "n", "c", "e", "m", "e", "n", "t">>, <<"n", "o", " ", "o", "p", "e", "r", "a", "t", "i", "o", "n", "a", "l", " ", "i", "m", "p", "a", "c", "t">>>>

\* any(word in title_lower or word in summary_lower for word in keywords)
Mentions(entry, keywords) ==
    \/ AnyIn(keywords, LowerStr(entry.title))
    \/ AnyIn(keywords, LowerStr(strip_html(entry.summary)))

\* the entries the loop gets past `continue`: incidents
Incidents(entries) ==
    SelectSeq(Take(entries, EntryLimit), LAMBDA entry : ~Future(entry))

\* those that are not informational
Counted(entries) ==
    SelectSeq(Incidents(entries),
              LAMBDA entry : ~Mentions(entry, informational_keywords))

ActiveIncidents(entries) ==
    SelectSeq(Counted(entries),
              LAMBDA entry : IsRecent(entry) /\ ~Mentions(entry, resolved_keywords))

RecentResolved(entries) ==
    SelectSeq(Counted(entries),
              LAMBDA entry : IsRecent(entry) /\ Mentions(entry, resolved_keywords))

\* the status of the first active incident
ActiveStatus(title, summary_text) ==
    IF AnyIn(<<<<"o", "u", "t", "a", "g", "e">>, <<"d", "o", "w", "n">>, <<"m", "a", "j", "o", "r", " ", "o", "u", "t", "a", "g", "e">>, <<"c", "r", "i", "t", "i", "c", "a", "l">>, <<"u", "n", "a", "v", "a", "i", "l", "a", "b", "l", "e">>>>, summary_text)
    THEN INCIDENT
    ELSE IF AnyIn(<<<<"o", "u", "t", "a", "g", "e">>, <<"d", "o", "w", "n">>, <<"m", "a", "j", "o", "r">>, <<"c", "r", "i", "t", "i", "c", "a", "l">>>>, title) THEN INCIDENT
    ELSE IF AnyIn(<<<<"i", "n", "v", "e", "s", "t", "i", "g", "a", "t", "i", "n", "g">>, <<"i", "d", "e", "n", "t", "i", "f", "i", "e", "d">>, <<"m", "o", "n", "i", "t", "o", "r", "i", "n", "g">>>>, summary_text)
    THEN DEGRADED
    ELSE IF AnyIn(<<<<"m", "a", "i", "n", "t", "e", "n", "a", "n", "c", "e">>, <<"s", "c", "h", "e", "d", "u", "l", "e", "d">>>>, title) THEN MAINTENANCE
    ELSE DEGRADED

\* Mutant: a recently resolved incident is looked for before an active one.
RSSStatus_ResolvedFirst(active_incidents, recent_resolved_incidents) ==
    IF recent_resolved_incidents # <<>> THEN RECENTLY_RESOLVED
    ELSE IF active_incidents # <<>>
    THEN ActiveStatus(LowerStr(active_incidents[1].title),
                      LowerStr(strip_html(active_incidents[1].summary)))
    ELSE OPERATIONAL

RSSStatus(active_incidents, recent_resolved_incidents) ==
    IF active_incidents # <<>>
    THEN ActiveStatus(LowerStr(active_incidents[1].title),
                      LowerStr(strip_html(active_incidents[1].summary)))
    ELSE IF recent_resolved_incidents # <<>> THEN RECENTLY_RESOLVED
    ELSE OPERATIONAL

\* "Generate appropriate summary"; a status other than OPERATIONAL has an
\* active or a recently resolved incident, so the last two branches are dead.
RSSSummary(status, active_incidents, recent_resolved_incidents) ==
    IF status = OPERATIONAL THEN Lit("All systems operational")
    ELSE IF active_incidents # <<>> THEN JStr(active_incidents[1].title)
    ELSE IF Len(recent_resolved_incidents) = 1
    THEN Fmt("Resolved: ", recent_resolved_incidents[1].title)
    ELSE [t |-> "fmt", lit |-> "Resolved incidents: ",
          arg |-> <<recent_resolved_incidents[1].title,
                    recent_resolved_incidents[2].title>>,
          more |-> Len(recent_resolved_incidents) - 2]

\* latest_incident.get("datetime") if latest_incident and has_recent_incident
RSSLastChanged(active_incidents, recent_resolved_incidents) ==
    IF active_incidents # <<>> THEN parse_entry_date(active_incidents[1])
    ELSE IF recent_resolved_incidents # <<>>
    THEN parse_entry_date(recent_resolved_incidents[1])
    ELSE None

RSSRawData(incidents, active_incidents, recent_resolved_incidents) ==
    [incidents |-> [i \in 1..Len(incidents) |-> Incident(incidents[i])],
     active_incidents |->
         [i \in 1..Len(active_incidents) |->
             [title |-> active_incidents[i].title, link |-> active_incidents[i].link]],
     recent_resolved |->
         [i \in 1..Len(recent_resolved_incidents) |->
             [title |-> recent_resolved_incidents[i].title,
              link |-> recent_resolved_incidents[i].link,
              published |-> parse_entry_date(recent_resolved_incidents[i])]],
     feed_title |-> <<>>,
     feed_updated |-> <<>>,
     has_recent_incident |-> active_incidents # <<>> \/ recent_resolved_incidents # <<>>]

RSSResult(incidents, active_incidents, recent_resolved_incidents) ==
    Returns([status |-> RSSStatus(active_incidents, recent_resolved_incidents),
             summary |-> RSSSummary(RSSStatus(active_incidents, recent_resolved_incidents),
                                    active_incidents, recent_resolved_incidents),
             raw_data |-> RSSRawData(incidents, active_incidents,
                                     recent_resolved_incidents),
             last_changed_at |-> RSSLastChanged(active_incidents,
                                                recent_resolved_incidents)])

\* RSSParser.parse(content, url); content.bozo and content.entries are what
\* feedparser.parse reports
RSSParse(content, url) ==
    IF content.bozo /\ content.entries = <<>>
    THEN Raises("ValueError", Fmt("Invalid feed: ", "bozo_exception"))
    ELSE RSSResult(Incidents(content.entries), ActiveIncidents(content.entries),
                   RecentResolved(content.entries))

(***************************************************************************)
(* parsers/html_parser.py                                                  *)
(*                                                                         *)
(* A page is what BeautifulSoup makes of the content: its <title> and its  *)
(* elements in document order.  An element carries the tag, the class      *)
(* attribute (joined by spaces), the attributes and descendants that the   *)
(* extractors read, and its text.  Tag "#text" is a bare text node.        *)
(***************************************************************************)
Elem ==
    [tag |-> "div", class |-> <<>>, automation_id |-> <<>>,
     status_attr |-> <<>>,      \* data-component-status
     table_row |-> 0,           \* position of a <tr> in its table, 0 outside
     text |-> <<>>,             \* get_text()
     heading |-> JAbsent,       \* first strong/b descendant
     time |-> JAbsent,          \* datetime of the first <time> descendant
     name |-> JAbsent,          \* span.name descendant
     title |-> JAbsent]         \* first descendant whose class matches title|name

\* soup.get_text(): one element per line
PageText(page) == Join([i \in 1..Len(page.elems) |-> page.elems[i].text], <<"\n">>)

\* HTMLParser.can_parse(content_type, content)
HTMLCanParse(content_type, content) ==
    \/ Contains(LowerStr(content_type), <<"h", "t", "m", "l">>)
    \/ StartsWith(Strip(content.head), <<"<", "!", "D", "O", "C", "T", "Y", "P", "E">>)
    \/ StartsWith(Strip(content.head), <<"<", "h", "t", "m", "l">>)

Extracted(status, summary, parser) ==
    [status |-> status, summary |-> summary, parser |-> parser]

m365_services == <<<<"E", "x", "c", "h", "a", "n", "g", "e", " ", "O", "n", "l", "i", "n", "e">>, <<"S", "h", "a", "r", "e", "P", "o", "i", "n", "t">>, <<"T", "e", "a", "m", "s">>, <<"O", "n", "e", "D", "r", "i", "v", "e">>, <<"O", "u", "t", "l", "o", "o", "k">>>>

\* the advisory elements _extract_status_microsoft365 collects
M365AdvisoryElements(page) ==
    LET divs == SelectSeq(page.elems, LAMBDA e :
                    /\ e.tag = "div"
                    /\ AnyIn(<<<<"i", "s", "s", "u", "e">>, <<"i", "n", "c", "i", "d", "e", "n", "t">>, <<"a", "d", "v", "i", "s", "o", "r", "y">>, <<"s", "e", "r", "v", "i", "c", "e", "-", "h", "e", "a", "l", "t", "h", "-", "i", "t", "e", "m">>>>,
                             LowerStr(e.class)))
        trs == SelectSeq(page.elems, LAMBDA e :
                    /\ e.tag = "tr"
                    /\ AnyIn(<<<<"i", "s", "s", "u", "e">>, <<"i", "n", "c", "i", "d", "e", "n", "t">>, <<"r", "o", "w">>>>, LowerStr(e.automation_id)))
        lis == SelectSeq(page.elems, LAMBDA e :
                    /\ e.tag = "li"
                    /\ AnyIn(<<<<"i", "s", "s", "u", "e">>, <<"i", "n", "c", "i", "d", "e", "n", "t">>, <<"a", "d", "v", "i", "s", "o", "r", "y">>>>, LowerStr(e.class)))
        specific == divs \o trs \o lis
    IN  IF specific # <<>> THEN specific
        ELSE SelectSeq(page.elems, LAMBDA e : e.tag = "tr" /\ e.table_row > 1)

\* title: the heading's text or the first line, with the ID put in front
M365Title(title, advisory_id) ==
    IF advisory_id # <<>> /\ ~Contains(title, advisory_id)
    THEN advisory_id \o <<":", " ">> \o title ELSE title

\* status_type
M365Severity(elem_text) ==
    IF WordSearch(elem_text, <<"I", "n", "c", "i", "d", "e", "n", "t">>) THEN "Incident"
    ELSE IF AnyIn(<<<<"d", "e", "g", "r", "a", "d", "e", "d">>, <<"d", "e", "g", "r", "a", "d", "a", "t", "i", "o", "n">>>>, LowerStr(elem_text))
    THEN "Service Degradation"
    ELSE "Advisory"

\* description: the text without the title
M365Description(elem_text, title) ==
    IF title # <<>> /\ Contains(elem_text, title)
    THEN Strip(Replace1(elem_text, title)) ELSE elem_text

\* published_at: the <time> element's datetime, else a date found in the text
M365PublishedAt(time, date) ==
    IF time # JAbsent /\ time.v # <<>> THEN time
    ELSE IF date # <<>> THEN JStr(date)
    ELSE None

M365Dict(title, description, status_type, published_at) ==
    [title |-> title,
     description |-> IF description # <<>> THEN Take(description, 500) ELSE title,
     severity |-> status_type,
     published_at |-> published_at,
     link |-> None]

M365Titled(elem, elem_text, title) ==
    M365Dict(title, M365Description(elem_text, title), M365Severity(elem_text),
             M365PublishedAt(elem.time, DateMatch(elem_text)))

M365Text(elem, elem_text) ==
    M365Titled(elem, elem_text,
               M365Title(IF elem.heading # JAbsent THEN Strip(elem.heading.v)
                         ELSE Split(elem_text, "\n")[1],
                         IdMatch(elem_text)))

\* the dict appended to incidents for one advisory element
M365Advisory(elem) == M365Text(elem, Strip(elem.text))

\* a dict is appended only with a title of more than five characters
M365Dicts(elems) ==
    SelectSeq([i \in 1..Len(elems) |-> M365Advisory(elems[i])],
              LAMBDA d : Len(d.title) > 5)

\* the list stored in self._incidents; elements with less than ten characters
\* of text are skipped
M365Incidents(page) ==
    M365Dicts(SelectSeq(M365AdvisoryElements(page), LAMBDA e : Len(Strip(e.text)) >= 10))

\* line i matched: the first service named within two lines of it, if any
M365Line(lines, i) ==
    LET named == SelectSeq(m365_services, LAMBDA service :
                     Contains(LowerStr(Join(SubSeq(lines, Max(1, i - 2),
                                                   Min(Len(lines), i + 2)), <<" ">>)),
                              LowerStr(service)))
    IN  IF named # <<>> THEN Fmt(": Service degraded", named[1])
        ELSE Lit("Service degradation detected")

M365Lines(lines) ==
    LET match(i) == AnyIn(<<<<"s", "e", "r", "v", "i", "c", "e", " ", "d", "e", "g", "r", "a", "d", "a", "t", "i", "o", "n">>, <<"d", "e", "g", "r", "a", "d", "e", "d">>>>, LowerStr(lines[i]))
    IN  M365Line(lines, CHOOSE i \in 1..Len(lines) :
                            match(i) /\ \A j \in 1..(i - 1) : ~match(j))

\* the summary of the "service degradation" branch: the first matching line
\* decides
M365DegradedSummary(page_text) == M365Lines(Split(page_text, "\n"))

SeverityCount(incidents, severity) ==
    Len(SelectSeq(incidents, LAMBDA i : i.severity = severity))

\* "Determine overall status", with self._incidents stored
M365Overall(stored, page_text, lower, incident_count, degraded_count, advisory_count) ==
    IF AnyIn(<<<<"s", "e", "r", "v", "i", "c", "e", " ", "d", "e", "g", "r", "a", "d", "a", "t", "i", "o", "n">>, <<"d", "e", "g", "r", "a", "d", "e", "d">>>>, lower)
    THEN Extracted(DEGRADED, M365DegradedSummary(page_text), stored)
    ELSE IF incident_count > 0
    THEN Extracted(INCIDENT, Fmt(" active incident(s)", incident_count), stored)
    ELSE IF degraded_count > 0
    THEN Extracted(DEGRADED, Fmt(" service(s) degraded", degraded_count), stored)
    ELSE IF WordSearch(page_text, <<"I", "n", "c", "i", "d", "e", "n", "t">>)
    THEN Extracted(INCIDENT, Lit("Active service incident"), stored)
    ELSE IF Contains(lower, <<"s", "e", "r", "v", "i", "c", "e", " ", "h", "e", "a", "l", "t", "h">>) /\ Count(page_text, <<"H", "e", "a", "l", "t", "h", "y">>) > 5
    THEN IF advisory_count > 0
         THEN Extracted(OPERATIONAL,
                        Fmt("All services healthy ( informational advisories)",
                            advisory_count), stored)
         ELSE IF AdvisoryMentions(page_text) # {}
         THEN Extracted(OPERATIONAL,
                        Fmt("All services healthy ( informational advisories)",
                            SumInts(page_text, AdvisoryMentions(page_text))), stored)
         ELSE Extracted(OPERATIONAL, Lit("All services healthy"), stored)
    ELSE Extracted(UNKNOWN, Lit("Unable to determine status"), stored)

\* the sign-in check returns before self._incidents is assigned
M365Extract(self, page_text, lower, incidents) ==
    IF Contains(lower, <<"s", "i", "g", "n", " ", "i", "n">>) /\ ~Contains(lower, <<"s", "e", "r", "v", "i", "c", "e", " ", "h", "e", "a", "l", "t", "h">>)
    THEN Extracted(UNKNOWN, Lit("Authentication required"), self)
    ELSE M365Overall([self EXCEPT !.has_incidents = TRUE, !.incidents = incidents],
                     page_text, lower,
                     SeverityCount(incidents, "Incident"),
                     SeverityCount(incidents, "Service Degradation"),
                     SeverityCount(incidents, "Advisory"))

\* HTMLParser._extract_status_microsoft365(soup); self is the parser's attributes
extract_status_microsoft365(self, page) ==
    M365Extract(self, PageText(page), LowerStr(PageText(page)), M365Incidents(page))

\* the branch a status span counts for
VeevaKind(text, classes) ==
    IF /\ Contains(classes, <<"c", "o", "m", "p", "o", "n", "e", "n", "t", "-", "a", "v", "a", "i", "l", "a", "b", "l", "e">>)
       /\ text \in {<<"n", "o", "r", "m", "a", "l">>, <<"o", "p", "e", "r", "a", "t", "i", "o", "n", "a", "l">>, <<"a", "v", "a", "i", "l", "a", "b", "l", "e">>}
    THEN "normal"
    ELSE IF Contains(text, <<"m", "a", "i", "n", "t", "e", "n", "a", "n", "c", "e">>) \/ Contains(classes, <<"m", "a", "i", "n", "t", "e", "n", "a", "n", "c", "e">>)
    THEN "maintenance"
    ELSE IF Contains(classes, <<"d", "e", "g", "r", "a", "d", "e", "d">>) \/ Contains(text, <<"d", "e", "g", "r", "a", "d", "e", "d">>)
    THEN "degraded"
    ELSE IF Contains(classes, <<"u", "n", "a", "v", "a", "i", "l", "a", "b", "l", "e">>) \/ Contains(text, <<"u", "n", "a", "v", "a", "i", "l", "a", "b", "l", "e">>)
    THEN "unavailable"
    ELSE "other"

VeevaCount(kinds, kind) == Len(SelectSeq(kinds, LAMBDA k : k = kind))

\* "Fallback: Check overall status banner"
VeevaBanner(self, banners) ==
    LET text == IF banners = <<>> THEN <<>> ELSE LowerStr(Strip(banners[1].text))
    IN  IF banners # <<>>
           /\ text \in {<<"o", "p", "e", "r", "a", "t", "i", "o", "n", "a", "l">>, <<"a", "l", "l", " ", "s", "y", "s", "t", "e", "m", "s", " ", "o", "p", "e", "r", "a", "t", "i", "o", "n", "a", "l">>, <<"n", "o", "r", "m", "a", "l">>}
        THEN Extracted(OPERATIONAL, Lit("All systems operational"), self)
        ELSE IF banners # <<>> /\ AnyIn(<<<<"i", "n", "c", "i", "d", "e", "n", "t">>, <<"m", "a", "j", "o", "r">>, <<"o", "u", "t", "a", "g", "e">>>>, text)
        THEN Extracted(INCIDENT, Lit("Service incident"), self)
        ELSE IF banners # <<>> /\ AnyIn(<<<<"d", "e", "g", "r", "a", "d", "e", "d">>, <<"m", "i", "n", "o", "r">>>>, text)
        THEN Extracted(DEGRADED, Lit("Service degraded"), self)
        ELSE Extracted(UNKNOWN, Lit(""), self)

\* "Report based on component statuses"
VeevaCounts(self, page, has_spans, normal_count, maintenance_count, degraded_count, unavailable_count) ==
    IF has_spans /\ unavailable_count > 0
    THEN Extracted(INCIDENT, Fmt(" service(s) unavailable", unavailable_count), self)
    ELSE IF has_spans /\ degraded_count > 0
    THEN Extracted(DEGRADED, Fmt(" service(s) degraded", degraded_count), self)
    ELSE IF has_spans /\ maintenance_count > 0 /\ normal_count = 0
    THEN Extracted(MAINTENANCE, Lit("System maintenance in progress"), self)
    ELSE IF has_spans /\ normal_count > 0
    THEN IF maintenance_count > 0
         THEN Extracted(OPERATIONAL,
                        Fmt("All systems operational ( scheduled maintenance)",
                            maintenance_count), self)
         ELSE Extracted(OPERATIONAL, Lit("All systems operational"), self)
    ELSE VeevaBanner(self, SelectSeq(page.elems, LAMBDA e :
                               /\ e.tag = "span"
                               /\ Contains(e.class, <<"c", "u", "r", "r", "e", "n", "t", "-", "s", "t", "a", "t", "u", "s", "-", "c", "o", "m", "p", "-", "s", "t", "a", "t", "u", "s", "-", "t", "e", "x", "t">>)))

VeevaKinds(self, page, kinds) ==
    VeevaCounts(self, page, kinds # <<>>,
                VeevaCount(kinds, "normal"), VeevaCount(kinds, "maintenance"),
                VeevaCount(kinds, "degraded"), VeevaCount(kinds, "unavailable"))

VeevaSpans(self, page, status_spans) ==
    VeevaKinds(self, page,
               [i \in 1..Len(status_spans) |->
                   VeevaKind(LowerStr(Strip(status_spans[i].text)), status_spans[i].class)])

\* HTMLParser._extract_status_veeva(soup)
extract_status_veeva(self, page) ==
    VeevaSpans(self, page,
               SelectSeq(page.elems, LAMBDA e :
                   /\ e.tag = "span"
                   /\ Contains(e.class, <<"s", "t", "a", "t", "u", "s", "-", "l", "i", "s", "t", "-", "c", "o", "m", "p", "o", "n", "e", "n", "t", "-", "s", "t", "a", "t", "u", "s", "-", "t", "e", "x", "t">>)))

\* data-component-status -> StatusType
ComponentStatus(status_attr) ==
    CASE status_attr = <<"o", "p", "e", "r", "a", "t", "i", "o", "n", "a", "l">> -> OPERATIONAL
      [] status_attr = <<"d", "e", "g", "r", "a", "d", "e", "d", "_", "p", "e", "r", "f", "o", "r", "m", "a", "n", "c", "e">> -> DEGRADED
      [] status_attr = <<"p", "a", "r", "t", "i", "a", "l", "_", "o", "u", "t", "a", "g", "e">> -> DEGRADED
      [] status_attr = <<"m", "a", "j", "o", "r", "_", "o", "u", "t", "a", "g", "e">> -> INCIDENT
      [] status_attr = <<"u", "n", "d", "e", "r", "_", "m", "a", "i", "n", "t", "e", "n", "a", "n", "c", "e">> -> MAINTENANCE
      [] OTHER -> UNKNOWN

\* re.search(r"status.*indicator", class, re.I)
StatusIndicatorClass(class) ==
    LET lower == LowerStr(class)
    IN  \E i \in 1..Len(lower) :
            /\ OccursAt(lower, <<"s", "t", "a", "t", "u", "s">>, i)
            /\ Contains(SubSeq(lower, i + 6, Len(lower)), <<"i", "n", "d", "i", "c", "a", "t", "o", "r">>)

\* the dicts appended to components
StatuspageComponents(containers) ==
    [i \in 1..Len(containers) |->
        [name |-> Strip(containers[i].name.v),
         status |-> ComponentStatus(containers[i].status_attr)]]

\* "Look for status indicator", "overall status text", "unresolved incidents"
StatuspageOverall(stored, page, indicators, page_status) ==
    LET classes == IF indicators = <<>> THEN <<>> ELSE indicators[1].class
        unresolved == SelectSeq(page.elems, LAMBDA e :
                          /\ Contains(LowerStr(e.class), <<"i", "n", "c", "i", "d", "e", "n", "t">>)
                          /\ ~AnyIn(<<<<"r", "e", "s", "o", "l", "v", "e", "d">>, <<"c", "o", "m", "p", "l", "e", "t", "e", "d">>>>, LowerStr(e.text))
                          /\ e.title # JAbsent)
    IN  IF AnyIn(<<<<"n", "o", "n", "e">>, <<"o", "p", "e", "r", "a", "t", "i", "o", "n", "a", "l">>>>, classes)
        THEN Extracted(OPERATIONAL, Lit("All Systems Operational"), stored)
        ELSE IF Contains(classes, <<"m", "i", "n", "o", "r">>)
        THEN Extracted(DEGRADED, Lit("Minor Service Issues"), stored)
        ELSE IF AnyIn(<<<<"m", "a", "j", "o", "r">>, <<"c", "r", "i", "t", "i", "c", "a", "l">>>>, classes)
        THEN Extracted(INCIDENT, Lit("Service Disruption"), stored)
        ELSE IF page_status # <<>>
        THEN Extracted(normalize_status(Strip(page_status[1].text)),
                       JStr(Strip(page_status[1].text)), stored)
        ELSE IF unresolved # <<>>
        THEN Extracted(DEGRADED, JStr(Strip(unresolved[1].title.v)), stored)
        ELSE Extracted(UNKNOWN, Lit(""), stored)

\* HTMLParser._extract_status_statuspage_io(soup)
extract_status_statuspage_io(self, page) ==
    StatuspageOverall(
        [self EXCEPT
            !.has_components = TRUE,
            !.components =
                StatuspageComponents(
                    SelectSeq(page.elems, LAMBDA e :
                        /\ e.tag = "div"
                        /\ \E k \in 1..Len(Split(e.class, " ")) :
                               Split(e.class, " ")[k] = <<"c", "o", "m", "p", "o", "n", "e", "n", "t", "-", "i", "n", "n", "e", "r", "-", "c", "o", "n", "t", "a", "i", "n", "e", "r">>
                        /\ e.name # JAbsent))],
        page,
        SelectSeq(page.elems, LAMBDA e : StatusIndicatorClass(e.class)),
        SelectSeq(page.elems, LAMBDA e : Contains(LowerStr(e.class), <<"p", "a", "g", "e", "-", "s", "t", "a", "t", "u", "s">>)))

\* "Normalize and check": the first text with a known status decides; then
\* "Fallback: look for "operational" or "incident" anywhere"
GenericKnown(self, page_text, known) ==
    IF known # <<>>
    THEN Extracted(normalize_status(known[1]), JStr(Take(known[1], 200)), self)
    ELSE IF AnyIn(<<<<"a", "l", "l", " ", "s", "y", "s", "t", "e", "m", "s", " ", "o", "p", "e", "r", "a", "t", "i", "o", "n", "a", "l">>, <<"e", "v", "e", "r", "y", "t", "h", "i", "n", "g", " ", "i", "s", " ", "o", "p", "e", "r", "a", "t", "i", "o", "n", "a", "l">>>>, page_text)
    THEN Extracted(OPERATIONAL, Lit("All Systems Operational"), self)
    ELSE IF AnyIn(<<<<"e", "x", "p", "e", "r", "i", "e", "n", "c", "i", "n", "g", " ", "i", "s", "s", "u", "e", "s">>, <<"s", "e", "r", "v", "i", "c", "e", " ", "d", "i", "s", "r", "u", "p", "t", "i", "o", "n">>, <<"o", "u", "t", "a", "g", "e">>>>, page_text)
    THEN Extracted(DEGRADED, Lit("Service Issues Detected"), self)
    ELSE Extracted(UNKNOWN, Lit("Unable to determine status"), self)

GenericTexts(self, page, found) ==
    GenericKnown(self, LowerStr(PageText(page)),
                 SelectSeq([i \in 1..Len(found) |-> Strip(found[i].text)],
                           LAMBDA text : normalize_status(text) # UNKNOWN))

\* HTMLParser._extract_status_generic(soup): headers first, then the divs
extract_status_generic(self, page) ==
    GenericTexts(self, page,
        SelectSeq(page.elems, LAMBDA e :
            e.tag \in {"h1", "h2", "h3"} /\ Strip(e.text) # <<>>)
        \o SelectSeq(page.elems, LAMBDA e :
            /\ e.tag = "div"
            /\ AnyIn(<<<<"s", "t", "a", "t", "u", "s">>, <<"b", "a", "n", "n", "e", "r">>, <<"a", "l", "e", "r", "t">>, <<"n", "o", "t", "i", "c", "e">>>>, LowerStr(e.class))
            /\ Strip(e.text) # <<>>
            /\ Len(Strip(e.text)) < 500))

\* the url names the Microsoft 365 admin center
IsM365Url(url) ==
    Contains(url, <<"a", "d", "m", "i", "n", ".", "m", "i", "c", "r", "o", "s", "o", "f", "t", ".", "c", "o", "m">>) \/ Contains(url, <<"a", "d", "m", "i", "n", ".", "c", "l", "o", "u", "d", ".", "m", "i", "c", "r", "o", "s", "o", "f", "t">>)

\* the next strategy runs only while the status is UNKNOWN
TryVeeva(extracted, page) ==
    IF extracted.status = UNKNOWN THEN extract_status_veeva(extracted.parser, page)
    ELSE extracted

\* Mutant: the Statuspage.io strategy runs whatever the status is.
TryStatuspage_Always(extracted, page) ==
    extract_status_statuspage_io(extracted.parser, page)

TryStatuspage(extracted, page) ==
    IF extracted.status = UNKNOWN
    THEN extract_status_statuspage_io(extracted.parser, page)
    ELSE extracted

TryGeneric(extracted, page) ==
    IF extracted.status = UNKNOWN THEN extract_status_generic(extracted.parser, page)
    ELSE extracted

\* raw_data and the returned dict, read off the parser's attributes
HTMLResult(url, page, extracted) ==
    [outcome |->
        Returns([status |-> extracted.status, summary |-> extracted.summary,
                 raw_data |->
                     [url |-> url,
                      title |-> page.title,
                      summary |-> extracted.summary,
                      components |-> IF extracted.parser.has_components
                                     THEN extracted.parser.components ELSE <<>>,
                      incidents |-> IF extracted.parser.has_incidents
                                    THEN extracted.parser.incidents ELSE <<>>],
                 last_changed_at |-> None]),
     parser |-> extracted.parser]

\* self._components = [], then the Microsoft 365 strategy for its urls
HTMLReset(self, page, url) ==
    IF IsM365Url(url) THEN extract_status_microsoft365(self, page)
    ELSE Extracted(UNKNOWN, Lit(""), self)

\* HTMLParser.parse(content, url) on the parser whose attributes are self:
\* the result and the attributes the call leaves behind.
HTMLParse(self, content, url) ==
    HTMLResult(url, content.page,
        TryGeneric(
            TryStatuspage(
                TryVeeva(
                    HTMLReset([self EXCEPT !.has_components = TRUE, !.components = <<>>],
                              content.page, url),
                    content.page),
                content.page),
            content.page))

\* the extractors a call of HTMLParser.parse runs, in the order it runs them:
\* the conditions of lines 33, 40, 44 and 48
HTMLRuns(self, page, url) ==
    (IF IsM365Url(url) THEN <<"microsoft365">> ELSE <<>>)
    \o (IF HTMLReset(self, page, url).status = UNKNOWN THEN <<"veeva">> ELSE <<>>)
    \o (IF TryVeeva(HTMLReset(self, page, url), page).status = UNKNOWN
        THEN <<"statuspage_io">> ELSE <<>>)
    \o (IF TryStatuspage(TryVeeva(HTMLReset(self, page, url), page), page).status = UNKNOWN
        THEN <<"generic">> ELSE <<>>)

(***************************************************************************)
(* parsers/__init__.py: ParserFactory                                      *)
(*                                                                         *)
(* A content is what the three libraries make of one response body:        *)
(*   head      the beginning of the text (content[:200])                   *)
(*   json      what json.loads gives: "invalid", "number" or "object"      *)
(*   data      the object, when json = "object"                            *)
(*   bozo, entries   what feedparser reports                               *)
(*   page      what BeautifulSoup builds                                   *)
(*   markup    the body is an HTML document                                *)
(***************************************************************************)
NoData ==
    [status |-> JAbsent, components |-> JAbsent, state |-> JAbsent,
     health |-> JAbsent, overall_status |-> JAbsent, incidents |-> JAbsent]

TextNode(text) == [Elem EXCEPT !.tag = "#text", !.text = text]

\* an HTML document: not JSON, and feedparser finds no feed in it
HtmlContent(title, elems) ==
    [head |-> <<"<", "!", "D", "O", "C", "T", "Y", "P", "E", " ", "h", "t", "m", "l", ">">>, json |-> "invalid", data |-> NoData,
     bozo |-> TRUE, entries |-> <<>>, markup |-> TRUE,
     page |-> [title |-> title, elems |-> elems]]

\* a JSON document: BeautifulSoup sees one text node
JsonContent(raw, kind, data) ==
    [head |-> raw, json |-> kind, data |-> data,
     bozo |-> TRUE, entries |-> <<>>, markup |-> FALSE,
     page |-> [title |-> <<>>, elems |-> <<TextNode(raw)>>]]

\* an XML or plain text document
TextContent(raw, bozo) ==
    [head |-> raw, json |-> "invalid", data |-> NoData,
     bozo |-> bozo, entries |-> <<>>, markup |-> FALSE,
     page |-> [title |-> <<>>, elems |-> <<TextNode(raw)>>]]

M365Url == <<"h", "t", "t", "p", "s", ":", "/", "/", "a", "d", "m", "i", "n", ".", "m", "i", "c", "r", "o", "s", "o", "f", "t", ".", "c", "o", "m", "/", "s", "e", "r", "v", "i", "c", "e", "h", "e", "a", "l", "t", "h">>
VendorUrl == <<"h", "t", "t", "p", "s", ":", "/", "/", "s", "t", "a", "t", "u", "s", ".", "v", "e", "n", "d", "o", "r", ".", "i", "o">>
Urls == {M365Url, VendorUrl}

\* Microsoft 365 service health with one incident and one advisory
PageM365Incident ==
    HtmlContent(<<"S", "e", "r", "v", "i", "c", "e", " ", "h", "e", "a", "l", "t", "h">>,
        <<TextNode(<<"S", "e", "r", "v", "i", "c", "e", " ", "h", "e", "a", "l", "t", "h">>),
          [Elem EXCEPT !.class = <<"m", "s", "-", "i", "s", "s", "u", "e", "-", "r", "o", "w">>,
                       !.text = <<"E", "X", "1", "2", "3", "4", "5", "6", " ", "E", "x", "c", "h", "a", "n", "g", "e", " ", "O", "n", "l", "i", "n", "e", " ", "m", "a", "i", "l", " ", "d", "e", "l", "a", "y", " ", "I", "n", "c", "i", "d", "e", "n", "t", " ", "2", "0", "2", "6", "-", "0", "1", "-", "0", "5">>,
                       !.heading = JStr(<<"E", "x", "c", "h", "a", "n", "g", "e", " ", "O", "n", "l", "i", "n", "e", " ", "m", "a", "i", "l", " ", "d", "e", "l", "a", "y">>)],
          [Elem EXCEPT !.tag = "li", !.class = <<"a", "d", "v", "i", "s", "o", "r", "y">>,
                       !.text = <<"T", "e", "a", "m", "s", " ", "r", "e", "c", "o", "r", "d", "i", "n", "g", "s", " ", "a", "r", "e", " ", "s", "l", "o", "w", " ", "t", "o", " ", "a", "p", "p", "e", "a", "r">>]>>)

\* Microsoft 365 service health, every service healthy
PageM365Healthy ==
    HtmlContent(<<"S", "e", "r", "v", "i", "c", "e", " ", "h", "e", "a", "l", "t", "h">>,
        <<TextNode(<<"S", "e", "r", "v", "i", "c", "e", " ", "h", "e", "a", "l", "t", "h">>),
          TextNode(<<"E", "x", "c", "h", "a", "n", "g", "e", " ", "O", "n", "l", "i", "n", "e", " ", "H", "e", "a", "l", "t", "h", "y">>), TextNode(<<"S", "h", "a", "r", "e", "P", "o", "i", "n", "t", " ", "H", "e", "a", "l", "t", "h", "y">>),
          TextNode(<<"T", "e", "a", "m", "s", " ", "H", "e", "a", "l", "t", "h", "y">>), TextNode(<<"O", "n", "e", "D", "r", "i", "v", "e", " ", "H", "e", "a", "l", "t", "h", "y">>),
          TextNode(<<"O", "u", "t", "l", "o", "o", "k", " ", "H", "e", "a", "l", "t", "h", "y">>), TextNode(<<"P", "l", "a", "n", "n", "e", "r", " ", "H", "e", "a", "l", "t", "h", "y">>),
          TextNode(<<"2", " ", "a", "d", "v", "i", "s", "o", "r", "i", "e", "s">>)>>)

\* the sign-in wall shown without a session
PageSignIn ==
    HtmlContent(<<"S", "i", "g", "n", " ", "i", "n", " ", "t", "o", " ", "y", "o", "u", "r", " ", "a", "c", "c", "o", "u", "n", "t">>,
        <<[Elem EXCEPT !.class = <<"l", "o", "g", "i", "n">>, !.text = <<"S", "i", "g", "n", " ", "i", "n", " ", "t", "o", " ", "y", "o", "u", "r", " ", "a", "c", "c", "o", "u", "n", "t">>]>>)

\* a Statuspage.io page
PageStatuspage ==
    HtmlContent(<<"V", "e", "n", "d", "o", "r", " ", "S", "t", "a", "t", "u", "s">>,
        <<[Elem EXCEPT !.tag = "span", !.class = <<"s", "t", "a", "t", "u", "s", "-", "i", "n", "d", "i", "c", "a", "t", "o", "r", " ", "m", "i", "n", "o", "r">>],
          [Elem EXCEPT !.class = <<"c", "o", "m", "p", "o", "n", "e", "n", "t", "-", "i", "n", "n", "e", "r", "-", "c", "o", "n", "t", "a", "i", "n", "e", "r", " ", "s", "t", "a", "t", "u", "s", "-", "y", "e", "l", "l", "o", "w">>,
                       !.status_attr = <<"d", "e", "g", "r", "a", "d", "e", "d", "_", "p", "e", "r", "f", "o", "r", "m", "a", "n", "c", "e">>,
                       !.name = JStr(<<"A", "P", "I">>), !.text = <<"A", "P", "I", " ", "D", "e", "g", "r", "a", "d", "e", "d", " ", "P", "e", "r", "f", "o", "r", "m", "a", "n", "c", "e">>]>>)

\* a StatusCast page
PageVeeva ==
    HtmlContent(<<"T", "r", "u", "s", "t">>,
        <<[Elem EXCEPT !.tag = "span",
                       !.class = <<"s", "t", "a", "t", "u", "s", "-", "l", "i", "s", "t", "-", "c", "o", "m", "p", "o", "n", "e", "n", "t", "-", "s", "t", "a", "t", "u", "s", "-", "t", "e", "x", "t", " ", "c", "o", "m", "p", "o", "n", "e", "n", "t", "-", "a", "v", "a", "i", "l", "a", "b", "l", "e">>,
                       !.text = <<"N", "o", "r", "m", "a", "l">>],
          [Elem EXCEPT !.tag = "span",
                       !.class = <<"s", "t", "a", "t", "u", "s", "-", "l", "i", "s", "t", "-", "c", "o", "m", "p", "o", "n", "e", "n", "t", "-", "s", "t", "a", "t", "u", "s", "-", "t", "e", "x", "t", " ", "c", "o", "m", "p", "o", "n", "e", "n", "t", "-", "m", "a", "i", "n", "t", "e", "n", "a", "n", "c", "e">>,
                       !.text = <<"M", "a", "i", "n", "t", "e", "n", "a", "n", "c", "e">>]>>)

\* a page with nothing but a header
PageHeaderOutage == HtmlContent(<<"S", "t", "a", "t", "u", "s">>, <<[Elem EXCEPT !.tag = "h2", !.text = <<"M", "a", "j", "o", "r", " ", "o", "u", "t", "a", "g", "e", " ", "i", "n", " ", "E", "U">>]>>)

\* summary.json of Statuspage.io
JsonSummary ==
    JsonContent(<<"{", "\"", "s", "t", "a", "t", "u", "s", "\"", ":", " ", "{", "\"", "i", "n", "d", "i", "c", "a", "t", "o", "r", "\"", ":", " ", "\"", "n", "o", "n", "e", "\"", "}", ",", " ", "\"", "c", "o", "m", "p", "o", "n", "e", "n", "t", "s", "\"", ":", " ", "[", ".", ".", ".", "]", "}">>, "object",
        [NoData EXCEPT
            !.status = JObj([indicator |-> JStr(<<"n", "o", "n", "e">>),
                             description |-> JStr(<<"A", "l", "l", " ", "S", "y", "s", "t", "e", "m", "s", " ", "O", "p", "e", "r", "a", "t", "i", "o", "n", "a", "l">>),
                             updated_at |-> [t |-> "time", v |-> 1]]),
            !.components = JList(<<[name |-> JStr(<<"A", "P", "I">>), status |-> JStr(<<"p", "a", "r", "t", "i", "a", "l", "_", "o", "u", "t", "a", "g", "e">>)],
                                   [name |-> JStr(<<"W", "e", "b">>), status |-> JStr(<<"o", "p", "e", "r", "a", "t", "i", "o", "n", "a", "l">>)]>>)])

\* {"status": "down"}: the status is a string, not an object
JsonStatusString ==
    JsonContent(<<"{", "\"", "s", "t", "a", "t", "u", "s", "\"", ":", " ", "\"", "d", "o", "w", "n", "\"", "}">>, "object", [NoData EXCEPT !.status = JStr(<<"d", "o", "w", "n">>)])

\* {"state": "OK"}
JsonState ==
    JsonContent(<<"{", "\"", "s", "t", "a", "t", "e", "\"", ":", " ", "\"", "O", "K", "\"", "}">>, "object", [NoData EXCEPT !.state = JStr(<<"O", "K">>)])

JsonNumber == JsonContent(<<"4", "2">>, "number", NoData)
JsonTruncated == JsonContent(<<"{", "\"", "s", "t", "a", "t", "u", "s", "\"", ":", " ", "{">>, "invalid", NoData)

FeedEmpty == TextContent(<<"<", "?", "x", "m", "l", " ", "v", "e", "r", "s", "i", "o", "n", "=", "\"", "1", ".", "0", "\"", "?", ">", "<", "r", "s", "s", ">", "<", "c", "h", "a", "n", "n", "e", "l", ">", "<", "/", "c", "h", "a", "n", "n", "e", "l", ">", "<", "/", "r", "s", "s", ">">>, FALSE)
FeedBroken == TextContent(<<"<", "r", "s", "s", ">", "<", "c", "h", "a", "n", "n", "e", "l", ">">>, TRUE)
PlainText == TextContent(<<"S", "e", "r", "v", "i", "c", "e", " ", "t", "e", "m", "p", "o", "r", "a", "r", "i", "l", "y", " ", "u", "n", "a", "v", "a", "i", "l", "a", "b", "l", "e">>, TRUE)

\* What a server answers: no answer at all, or a status code, a
\* Content-Type header and a body.
Answer(status_code, content_type, content) ==
    [answered |-> TRUE, status_code |-> status_code,
     content_type |-> content_type, content |-> content]

NoAnswer == [answered |-> FALSE]

Served ==
    {NoAnswer, Answer(503, <<"t", "e", "x", "t", "/", "p", "l", "a", "i", "n">>, PlainText)}
    \cup {Answer(200, <<"t", "e", "x", "t", "/", "h", "t", "m", "l", ";", " ", "c", "h", "a", "r", "s", "e", "t", "=", "u", "t", "f", "-", "8">>, c) :
            c \in {PageM365Incident, PageM365Healthy, PageSignIn, PageStatuspage,
                   PageVeeva, PageHeaderOutage}}
    \cup {Answer(200, <<"a", "p", "p", "l", "i", "c", "a", "t", "i", "o", "n", "/", "j", "s", "o", "n">>, c) :
            c \in {JsonSummary, JsonStatusString, JsonState, JsonNumber, JsonTruncated}}
    \cup {Answer(200, <<"t", "e", "x", "t", "/", "p", "l", "a", "i", "n">>, c) : c \in {JsonState, PlainText, FeedBroken}}
    \cup {Answer(200, <<"a", "p", "p", "l", "i", "c", "a", "t", "i", "o", "n", "/", "r", "s", "s", "+", "x", "m", "l">>, c) : c \in {FeedEmpty, FeedBroken}}

Fetched(content, content_type) == [content |-> content, content_type |-> content_type]

\* ParserFactory._fetch_with_httpx(url): raise_for_status raises on 4xx and 5xx
fetch_with_httpx(served) ==
    IF ~served.answered THEN Raises("ConnectError", Lit("All connection attempts failed"))
    ELSE IF served.status_code >= 400
    THEN Raises("HTTPStatusError", Fmt("Server error for url", served.status_code))
    ELSE Returns(Fetched(served.content, served.content_type))

\* page.content(): the browser's serialisation of the document it shows; a
\* body that is no HTML is shown as text inside a generated document
Rendered(content) ==
    IF content.markup THEN content
    ELSE HtmlContent(<<>>, [i \in 1..Len(content.page.elems) |->
                               [content.page.elems[i] EXCEPT !.tag = "pre"]])

\* ParserFactory._fetch_with_playwright(url, auth_state_file): goto raises only
\* when there is no answer
fetch_with_playwright(served) ==
    IF ~served.answered THEN Raises("Error", Lit("net::ERR_CONNECTION_REFUSED"))
    ELSE Returns(Fetched(Rendered(served.content), <<"t", "e", "x", "t", "/", "h", "t", "m", "l">>))

\* ParserFactory._auto_select_parser: the first of self.parsers that can parse
auto_select_parser(content_type, content) ==
    IF JSONCanParse(content_type, content) THEN "JSONParser"
    ELSE IF RSSCanParse(content_type, content) THEN "RSSParser"
    ELSE IF HTMLCanParse(content_type, content) THEN "HTMLParser"
    ELSE "None"

\* ParserFactory._get_parser_by_type: the class of the new instance
get_parser_by_type(parser_type) ==
    CASE parser_type = JSON -> "JSONParser"
      [] parser_type = RSS -> "RSSParser"
      [] parser_type = HTML -> "HTMLParser"
      [] OTHER -> "None"

\* ParserFactory._get_source_type
get_source_type(class) ==
    CASE class = "JSONParser" -> "json"
      [] class = "RSSParser" -> "rss"
      [] class = "HTMLParser" -> "html"
      [] OTHER -> "unknown"

\* Mutant: the handler is except ValueError.
Caught_ValueErrorOnly(exc) == exc.type = "ValueError"

\* except Exception: everything but the BaseException-only classes is caught
Caught(exc) ==
    exc.type \notin {"CancelledError", "KeyboardInterrupt", "SystemExit", "GeneratorExit"}

\* the dict of the except branch, e the caught exception's text
ErrorResult(e) ==
    [status |-> UNKNOWN, summary |-> Fmt("Error: ", e), raw_data |-> <<>>,
     last_changed_at |-> None, source_type |-> "error", error |-> e]

\* result["source_type"] = source_type.  AUTO picked an instance of
\* self.parsers, whose attributes outlive the call; an explicit type built a
\* new instance for this call.
WithSourceType(run, class, parser_type, shared) ==
    IF ~run.outcome.ok
    THEN [outcome |-> run.outcome,
          parser |-> IF parser_type = AUTO THEN run.parser ELSE shared]
    ELSE [outcome |-> Returns([status |-> run.outcome.value.status,
                               summary |-> run.outcome.value.summary,
                               raw_data |-> run.outcome.value.raw_data,
                               last_changed_at |-> run.outcome.value.last_changed_at,
                               source_type |-> get_source_type(class)]),
          parser |-> IF parser_type = AUTO THEN run.parser ELSE shared]

\* parser.parse(content, url), or "No suitable parser" without a parser
RunParser(self, class, content, url) ==
    CASE class = "JSONParser" -> [outcome |-> JSONParse(content, url), parser |-> self]
      [] class = "RSSParser" -> [outcome |-> RSSParse(content, url), parser |-> self]
      [] class = "HTMLParser" -> HTMLParse(self, content, url)
      [] OTHER -> [outcome |-> Raises("ValueError",
                                      Fmt("No suitable parser found for ", url)),
                   parser |-> self]

ParseSelected(shared, url, parser_type, class, content) ==
    WithSourceType(RunParser(IF parser_type = AUTO THEN shared ELSE FreshHTMLParser,
                             class, content, url),
                   class, parser_type, shared)

ParseFetched(shared, url, parser_type, fetched) ==
    IF ~fetched.ok THEN [outcome |-> fetched, parser |-> shared]
    ELSE ParseSelected(shared, url, parser_type,
                       IF parser_type = AUTO
                       THEN auto_select_parser(fetched.value.content_type,
                                               fetched.value.content)
                       ELSE get_parser_by_type(parser_type),
                       fetched.value.content)

\* the try body of parse_url: its outcome and the attributes that the shared
\* HTMLParser of self.parsers has afterwards
ParseUrlBody(shared, url, parser_type, use_playwright, served) ==
    ParseFetched(shared, url, parser_type,
                 IF use_playwright THEN fetch_with_playwright(served)
                 ELSE fetch_with_httpx(served))

\* the except branch; an exception it does not catch reaches the caller
Handled(body) ==
    [result |-> IF body.outcome.ok THEN body.outcome.value
                ELSE IF Caught(body.outcome) THEN ErrorResult(body.outcome.msg)
                ELSE [propagated |-> body.outcome],
     failure |-> IF body.outcome.ok THEN None ELSE body.outcome,
     parser |-> body.parser]

\* ParserFactory.parse_url: what the caller gets (a dict, or the exception that
\* escapes), the exception of the try body if any, and the shared parser after.
parse_url(shared, url, parser_type, use_playwright, served) ==
    Handled(ParseUrlBody(shared, url, parser_type, use_playwright, served))

Return(call, url, parser_type, use_playwright, served) ==
    /\ html_parser' = call.parser
    /\ last_parse' = [kind |-> "call", url |-> url, parser_type |-> parser_type,
                      use_playwright |-> use_playwright, served |-> served,
                      failure |-> call.failure, result |-> call.result]

\* One call parser_factory.parse_url(url, parser_type, use_playwright) on the
\* global factory, from the fetch to the return.
ParseUrl(url, parser_type, use_playwright, served) ==
    /\ pc = "idle"
    /\ Return(parse_url(html_parser, url, parser_type, use_playwright, served),
              url, parser_type, use_playwright, served)
    /\ UNCHANGED OutsideParse

\* no generate_query call is in progress
SqlIdle ==
    /\ task = TaskUptime
    /\ max_repairs = 0
    /\ backend = SQL_BACKEND_OLLAMA
    /\ pc = "idle"
    /\ llm_output = NoOutput
    /\ sql = <<>>
    /\ policy_failures = <<>>
    /\ exec_result = NoExec
    /\ attempts = <<>>
    /\ repair_count = 0
    /\ result = NoResult
    /\ exit = "none"
    /\ executed = <<>>
    /\ prompts = <<>>
    /\ received = <<>>

InitParse == SqlIdle /\ ParseInit /\ ClockInit /\ PipeInit /\ SchedInit /\ AdvInit /\ PollInit /\ FnInit

\* The monitored entities: a url with its configured parser type and fetcher.
Site(url, parser_type, use_playwright) ==
    [url |-> url, parser_type |-> parser_type, use_playwright |-> use_playwright]

Sites ==
    {Site(M365Url, AUTO, TRUE), Site(M365Url, HTML, TRUE),
     Site(VendorUrl, AUTO, FALSE), Site(VendorUrl, AUTO, TRUE),
     Site(VendorUrl, JSON, FALSE), Site(VendorUrl, RSS, FALSE),
     Site(VendorUrl, HTML, FALSE)}

ParseNext ==
    \E site \in Sites, served \in Served :
        ParseUrl(site.url, site.parser_type, site.use_playwright, served)

SpecParse == InitParse /\ [][ParseNext]_vars


(***************************************************************************)
(* Properties of ParserFactory.parse_url                                   *)
(***************************************************************************)
Called == last_parse.kind = "call"
Failed == Called /\ last_parse.failure # None

\* C9: parse_url never propagates a failure: whenever the fetch fails, no
\* parser is found or a parser raises, the caller gets a dict with status
\* UNKNOWN, source_type "error", last_changed_at null, the exception's text in
\* "error" and "Error: " followed by that text in the summary.
C9_NeverPropagates ==
    Failed =>
        /\ "propagated" \notin DOMAIN last_parse.result
        /\ last_parse.result.status = UNKNOWN
        /\ last_parse.result.source_type = "error"
        /\ last_parse.result.last_changed_at = None
        /\ last_parse.result.error = last_parse.failure.msg
        /\ last_parse.result.summary = Fmt("Error: ", last_parse.failure.msg)

\* a parser raised something that is no ValueError, and the caller got the
\* error reading
C9_Witness ==
    /\ Failed
    /\ last_parse.failure.type = "AttributeError"
    /\ last_parse.served.answered
    /\ last_parse.result.source_type = "error"

\* C10: parses share no mutable state: what a call returns is what the same
\* call returns on parsers that never parsed anything before, so the
\* components and incidents in raw_data come from this content alone.
C10_NoSharedState ==
    Called =>
        last_parse.result =
            parse_url(FreshHTMLParser, last_parse.url, last_parse.parser_type,
                      last_parse.use_playwright, last_parse.served).result


(***************************************************************************)
(* Part III: PollingScheduler.  poll_site suspends at its awaits (the      *)
(* fetch, the advisory analysis), so a poll is in flight from the moment   *)
(* its coroutine starts until it returns; everything else in the class     *)
(* runs without suspending.                                                *)
(***************************************************************************)
\* bound: poll_site coroutines of one site, in flight or waiting to start
MaxInFlight == 2

\* add_job(..., max_instances=1)
max_instances == 1

InFlight(site_id) ==
    polling[site_id]["job"] + polling[site_id]["task"] + polling[site_id]["now"]

Room(site_id) == InFlight(site_id) + tasks[site_id] < MaxInFlight

\* reload_sites: remove_all_jobs, one interval job per active site, then
\* asyncio.create_task(self.poll_site(site.id)) for each of them.
reload_sites ==
    /\ \A site_id \in SiteIds : Room(site_id)
    /\ jobs' = SiteIds
    /\ tasks' = [site_id \in SiteIds |-> tasks[site_id] + 1]
    /\ UNCHANGED <<instances, polling>>
    /\ UNCHANGED OutsideSched

\* add_site_to_schedule: add_job(replace_existing=True), then create_task.
add_site_to_schedule(site_id) ==
    /\ Room(site_id)
    /\ jobs' = jobs \cup {site_id}
    /\ tasks' = [tasks EXCEPT ![site_id] = @ + 1]
    /\ UNCHANGED <<instances, polling>>
    /\ UNCHANGED OutsideSched

\* remove_site_from_schedule: remove_job; nothing in flight is cancelled.
remove_site_from_schedule(site_id) ==
    /\ site_id \in jobs
    /\ jobs' = jobs \ {site_id}
    /\ UNCHANGED <<instances, tasks, polling>>
    /\ UNCHANGED OutsideSched

\* The interval trigger of job "poll_<site_id>" fires: the executor runs
\* poll_site unless max_instances instances of the job are still running.
interval_job(site_id) ==
    /\ site_id \in jobs
    /\ instances[site_id] < max_instances
    /\ Room(site_id)
    /\ instances' = [instances EXCEPT ![site_id] = @ + 1]
    /\ polling' = [polling EXCEPT ![site_id]["job"] = @ + 1]
    /\ UNCHANGED <<jobs, tasks>>
    /\ UNCHANGED OutsideSched

\* The event loop starts a task made by create_task(self.poll_site(site_id)).
task_start(site_id) ==
    /\ tasks[site_id] > 0
    /\ tasks' = [tasks EXCEPT ![site_id] = @ - 1]
    /\ polling' = [polling EXCEPT ![site_id]["task"] = @ + 1]
    /\ UNCHANGED <<jobs, instances>>
    /\ UNCHANGED OutsideSched

\* poll_site_now: await self.poll_site(site_id) in the caller's task.
poll_site_now(site_id) ==
    /\ Room(site_id)
    /\ polling' = [polling EXCEPT ![site_id]["now"] = @ + 1]
    /\ UNCHANGED <<jobs, instances, tasks>>
    /\ UNCHANGED OutsideSched

\* A poll_site coroutine returns; a job's run gives its instance back.
poll_site_done(site_id, origin) ==
    /\ polling[site_id][origin] > 0
    /\ polling' = [polling EXCEPT ![site_id][origin] = @ - 1]
    /\ instances' = IF origin = "job" THEN [instances EXCEPT ![site_id] = @ - 1]
                    ELSE instances
    /\ UNCHANGED <<jobs, tasks>>
    /\ UNCHANGED OutsideSched

SchedNext ==
    \/ reload_sites
    \/ \E site_id \in SiteIds : add_site_to_schedule(site_id)
    \/ \E site_id \in SiteIds : remove_site_from_schedule(site_id)
    \/ \E site_id \in SiteIds : interval_job(site_id)
    \/ \E site_id \in SiteIds : task_start(site_id)
    \/ \E site_id \in SiteIds : poll_site_now(site_id)
    \/ \E site_id \in SiteIds, origin \in Origins : poll_site_done(site_id, origin)

InitSched == SqlIdle /\ ParseInit /\ ClockInit /\ PipeInit /\ SchedInit /\ AdvInit /\ PollInit /\ FnInit

SpecSched == InitSched /\ [][SchedNext]_vars

(***************************************************************************)
(* Properties of PollingScheduler                                          *)
(***************************************************************************)
\* C11: at most one poll of a given site is in flight: over any interleaving
\* of the interval jobs, reload_sites, add_site_to_schedule and poll_site_now,
\* two executions of poll_site for the same site_id never overlap.
C11_AtMostOnePoll == \A site_id \in SiteIds : InFlight(site_id) <= 1

\* runs of one job never overlap each other (max_instances=1)
C11_JobRunsAlone == \A site_id \in SiteIds : polling[site_id]["job"] <= max_instances


(***************************************************************************)
(* Part IV: AdvisoryService.  analyze_and_store_advisory runs from its     *)
(* lookup to `await LLMService.analyze_advisory(...)` without suspending,  *)
(* is suspended while the provider answers, and then inserts and commits.  *)
(***************************************************************************)
\* bound: process_site_advisories calls started in one run
MaxCalls == 2

\* Titles of the advisories a feed may carry (extract_advisories_from_feed
\* keeps only entries with a title).
Titles == {"API outage", "Scheduled maintenance"}

\* the advisory lists extracted from one feed_data
AdvisoryLists ==
    {<<>>} \cup {<<t>> : t \in Titles} \cup {<<t, u>> : t, u \in Titles}

Criticalities == {"high", "urgent"}

\* criticality_map.get(analysis['criticality'].lower(), CriticalityLevel.UNKNOWN)
criticality_map(c) ==
    IF c \in {"high", "medium", "low"} THEN c ELSE "unknown"

\* select(Advisory).where(site_id == ...).where(title == ...).first()
Existing(site_id, title) ==
    SelectSeq(advisories, LAMBDA row : row.site_id = site_id /\ row.title = title)

\* process_site_advisories up to its loop: the advisories extracted from
\* feed_data; an empty list returns [] at once.
process_site_advisories(caller, site_id, advisory_data_list) ==
    /\ proc[caller].pc = "idle"
    /\ calls < MaxCalls
    /\ calls' = calls + 1
    /\ proc' = [proc EXCEPT ![caller] =
                   [pc |-> IF advisory_data_list = <<>> THEN "idle" ELSE "loop",
                    site_id |-> site_id, todo |-> advisory_data_list,
                    created |-> <<>>]]
    /\ UNCHANGED <<advisories, analysed>>
    /\ UNCHANGED OutsideAdv

\* analyze_and_store_advisory, lines 80-113: the lookup; an existing row is
\* returned, otherwise LLMService.analyze_advisory is invoked and awaited.
analyze_and_store_advisory(caller) ==
    LET call == proc[caller]
        title == Head(call.todo)
        existing == Existing(call.site_id, title)
    IN  /\ call.pc = "loop"
        /\ call.todo # <<>>
        /\ IF existing # <<>>
           THEN /\ proc' = [proc EXCEPT ![caller].todo = Tail(@),
                                        ![caller].created = Append(@, Head(existing))]
                /\ UNCHANGED analysed
           ELSE /\ proc' = [proc EXCEPT ![caller].pc = "analysis"]
                /\ analysed' = analysed \cup
                       {[site_id |-> call.site_id, title |-> title]}
        /\ UNCHANGED <<advisories, calls>>
        /\ UNCHANGED OutsideAdv

\* analyze_and_store_advisory, lines 115-149: the analysis has come back; the
\* row is added, committed and returned.
store_advisory(caller, criticality) ==
    LET call == proc[caller]
        advisory == [id |-> Len(advisories) + 1, site_id |-> call.site_id,
                     title |-> Head(call.todo),
                     criticality |-> criticality_map(criticality)]
    IN  /\ call.pc = "analysis"
        /\ advisories' = Append(advisories, advisory)
        /\ proc' = [proc EXCEPT ![caller].pc = "loop",
                                ![caller].todo = Tail(@),
                                ![caller].created = Append(@, advisory)]
        /\ UNCHANGED <<analysed, calls>>
        /\ UNCHANGED OutsideAdv

\* process_site_advisories returns created_advisories
return_created(caller) ==
    /\ proc[caller].pc = "loop"
    /\ proc[caller].todo = <<>>
    /\ proc' = [proc EXCEPT ![caller].pc = "idle"]
    /\ UNCHANGED <<advisories, analysed, calls>>
    /\ UNCHANGED OutsideAdv

AdvNext ==
    \/ \E caller \in Callers, site_id \in SiteIds, list \in AdvisoryLists :
           process_site_advisories(caller, site_id, list)
    \/ \E caller \in Callers : analyze_and_store_advisory(caller)
    \/ \E caller \in Callers, criticality \in Criticalities :
           store_advisory(caller, criticality)
    \/ \E caller \in Callers : return_created(caller)

InitAdv == SqlIdle /\ ParseInit /\ ClockInit /\ PipeInit /\ SchedInit /\ AdvInit /\ PollInit /\ FnInit

SpecAdv == InitAdv /\ [][AdvNext]_vars

(***************************************************************************)
(* Properties of AdvisoryService                                           *)
(***************************************************************************)
\* C12: after any sequence or interleaving of process_site_advisories calls
\* the advisories table holds at most one row per (site_id, title), and a
\* call for a stored (site_id, title) returns the existing row without
\* invoking the analysis.
C12_OneRowPerTitle ==
    \A i, j \in DOMAIN advisories :
        (advisories[i].site_id = advisories[j].site_id
         /\ advisories[i].title = advisories[j].title) => i = j

\* the analysis is only ever awaited for a title that had no row at the lookup,
\* and stored rows are never rewritten
C12_StoredRowsKept ==
    [][/\ Len(advisories') >= Len(advisories)
       /\ SubSeq(advisories', 1, Len(advisories)) = advisories
       /\ \A caller \in Callers :
              (proc[caller].pc = "loop" /\ proc'[caller].pc = "analysis")
                  => Existing(proc[caller].site_id, Head(proc[caller].todo)) = <<>>]_vars


(***************************************************************************)
(* Part V: PollingScheduler.poll_site, from the parse to the stored        *)
(* reading (lines 106-198 and the handler of lines 236-252).  What follows *)
(* the commit of the reading (advisories, notification) cannot change it.  *)
(***************************************************************************)
\* StatusType.value
StatusValue(status) ==
    CASE status = OPERATIONAL -> <<"o", "p", "e", "r", "a", "t", "i", "o", "n", "a", "l">>
      [] status = DEGRADED -> <<"d", "e", "g", "r", "a", "d", "e", "d">>
      [] status = INCIDENT -> <<"i", "n", "c", "i", "d", "e", "n", "t">>
      [] status = MAINTENANCE -> <<"m", "a", "i", "n", "t", "e", "n", "a", "n", "c", "e">>
      [] status = RECENTLY_RESOLVED -> <<"r", "e", "c", "e", "n", "t", "l", "y", "_", "r", "e", "s", "o", "l", "v", "e", "d">>
      [] OTHER -> <<"u", "n", "k", "n", "o", "w", "n">>

\* result.get("raw_data", {}).get("components"): the dicts of HTMLParser carry
\* 'status': comp_status.value, those of summary.json the vendor's own text.
ResultComponents(parsed) ==
    CASE parsed.source_type = "html" ->
             [i \in 1..Len(parsed.raw_data.components) |->
                 [name |-> JStr(parsed.raw_data.components[i].name),
                  status |-> JStr(StatusValue(parsed.raw_data.components[i].status))]]
      [] parsed.source_type = "json" ->
             Get(parsed.raw_data, "components", JList(<<>>)).v
      [] OTHER -> <<>>

\* comp["name"].lower() in module_names
ModuleMatches(comp, modules) ==
    \E i \in 1..Len(modules) : LowerStr(comp.name.v) = LowerStr(modules[i])

\* the loop of lines 148-156
RECURSIVE WorstStatus(_, _)
WorstStatus(filtered_components, worst_status) ==
    IF filtered_components = <<>> THEN worst_status
    ELSE WorstStatus(Tail(filtered_components),
             LET comp_status_str ==
                     Get(Head(filtered_components), "status", JStr(<<"o", "p", "e", "r", "a", "t", "i", "o", "n", "a", "l">>)).v
             IN  IF comp_status_str = <<"i", "n", "c", "i", "d", "e", "n", "t">> THEN INCIDENT
                 ELSE IF comp_status_str = <<"d", "e", "g", "r", "a", "d", "e", "d">> /\ worst_status # INCIDENT
                 THEN DEGRADED
                 ELSE IF comp_status_str = <<"m", "a", "i", "n", "t", "e", "n", "a", "n", "c", "e">> /\ worst_status = OPERATIONAL
                 THEN MAINTENANCE
                 ELSE worst_status)

\* [c["name"] for c in filtered_components if c["status"] != "operational"]
AffectedNames(filtered_components) ==
    LET affected == SelectSeq(filtered_components,
                              LAMBDA c : c.status.v # <<"o", "p", "e", "r", "a", "t", "i", "o", "n", "a", "l">>)
    IN  [i \in 1..Len(affected) |-> affected[i].name.v]

\* lines 159-164: the summary naming the affected components
FilteredSummary(filtered_components, affected_names, worst_status) ==
    IF affected_names # <<>>
    THEN [t |-> "fmt", lit |-> ": ", names |-> affected_names,
          arg |-> StatusValue(worst_status)]
    ELSE Fmt("Monitored components operational ( components)", Len(filtered_components))

\* Mutant: the filter rewrites the result even when nothing matched.
FilteredResult_NoEmptyGuard(parsed, filtered_components) ==
    Returns([parsed EXCEPT
        !.status = WorstStatus(filtered_components, OPERATIONAL),
        !.summary = FilteredSummary(filtered_components,
                        AffectedNames(filtered_components),
                        WorstStatus(filtered_components, OPERATIONAL))])

\* lines 143-166
FilteredResult(parsed, filtered_components) ==
    IF filtered_components = <<>> THEN Returns(parsed)
    ELSE IF \E i \in 1..Len(filtered_components) : filtered_components[i].status = JAbsent
    THEN Raises("KeyError", Lit("'status'"))
    ELSE Returns([parsed EXCEPT
             !.status = WorstStatus(filtered_components, OPERATIONAL),
             !.summary = FilteredSummary(filtered_components,
                             AffectedNames(filtered_components),
                             WorstStatus(filtered_components, OPERATIONAL))])

\* lines 132-141
FilterByModules(parsed, modules, all_components) ==
    IF modules = <<>> \/ all_components = <<>> THEN Returns(parsed)
    ELSE IF \E i \in 1..Len(all_components) : all_components[i].name = JAbsent
    THEN Raises("KeyError", Lit("'name'"))
    ELSE FilteredResult(parsed,
             SelectSeq(all_components, LAMBDA comp : ModuleMatches(comp, modules)))

Now == [t |-> "now"]

\* lines 176-183
LastChangedAt(parsed, previous) ==
    IF parsed.last_changed_at # None THEN parsed.last_changed_at
    ELSE IF previous # NoReading /\ previous.status # parsed.status THEN Now
    ELSE IF previous # NoReading THEN previous.last_changed_at
    ELSE None

\* lines 186-195
NewReading(parsed, previous) ==
    [kind |-> "reading", status |-> parsed.status, summary |-> parsed.summary,
     source_type |-> parsed.source_type, raw_snapshot |-> parsed.raw_data,
     last_changed_at |-> LastChangedAt(parsed, previous),
     error_message |-> IF "error" \in DOMAIN parsed THEN parsed.error ELSE None]

\* lines 241-248
ErrorReading(e) ==
    [kind |-> "reading", status |-> UNKNOWN, summary |-> Lit("Polling failed"),
     source_type |-> "error", raw_snapshot |-> <<>>, last_changed_at |-> None,
     error_message |-> e.msg]

StoredReading(filtered, previous) ==
    IF filtered.ok THEN NewReading(filtered.value, previous) ELSE ErrorReading(filtered)

\* One poll_site(site_id) of an active site, up to the commit of its reading.
poll_site(site, served) ==
    /\ pc = "idle"
    /\ Return(parse_url(html_parser, site.url, site.parser_type, site.use_playwright, served),
              site.url, site.parser_type, site.use_playwright, served)
    /\ last_reading' =
           StoredReading(
               FilterByModules(last_parse'.result, enabled_modules,
                               ResultComponents(last_parse'.result)),
               last_reading)
    /\ UNCHANGED enabled_modules
    /\ UNCHANGED OutsidePoll

\* vendor texts of a component's status on Statuspage
ComponentTexts == {<<"o", "p", "e", "r", "a", "t", "i", "o", "n", "a", "l">>, <<"d", "e", "g", "r", "a", "d", "e", "d", "_", "p", "e", "r", "f", "o", "r", "m", "a", "n", "c", "e">>, <<"m", "a", "j", "o", "r", "_", "o", "u", "t", "a", "g", "e">>, <<"u", "n", "d", "e", "r", "_", "m", "a", "i", "n", "t", "e", "n", "a", "n", "c", "e">>}

\* a Statuspage page with three components
PollPage(api, web) ==
    HtmlContent(<<"V", "e", "n", "d", "o", "r", " ", "S", "t", "a", "t", "u", "s">>,
        <<[Elem EXCEPT !.tag = "span", !.class = <<"s", "t", "a", "t", "u", "s", "-", "i", "n", "d", "i", "c", "a", "t", "o", "r", " ", "m", "i", "n", "o", "r">>],
          [Elem EXCEPT !.class = <<"c", "o", "m", "p", "o", "n", "e", "n", "t", "-", "i", "n", "n", "e", "r", "-", "c", "o", "n", "t", "a", "i", "n", "e", "r">>, !.status_attr = api,
                       !.name = JStr(<<"A", "P", "I">>), !.text = <<"A", "P", "I">>],
          [Elem EXCEPT !.class = <<"c", "o", "m", "p", "o", "n", "e", "n", "t", "-", "i", "n", "n", "e", "r", "-", "c", "o", "n", "t", "a", "i", "n", "e", "r">>, !.status_attr = web,
                       !.name = JStr(<<"W", "e", "b">>), !.text = <<"W", "e", "b">>],
          [Elem EXCEPT !.class = <<"c", "o", "m", "p", "o", "n", "e", "n", "t", "-", "i", "n", "n", "e", "r", "-", "c", "o", "n", "t", "a", "i", "n", "e", "r">>, !.status_attr = <<"o", "p", "e", "r", "a", "t", "i", "o", "n", "a", "l">>,
                       !.name = JStr(<<"B", "i", "l", "l", "i", "n", "g">>), !.text = <<"B", "i", "l", "l", "i", "n", "g">>]>>)

\* the summary.json of the same page
PollJson(api, web) ==
    JsonContent(<<"{", "\"", "s", "t", "a", "t", "u", "s", "\"", ":", " ", "{", "\"", "i", "n", "d", "i", "c", "a", "t", "o", "r", "\"", ":", " ", "\"", "m", "i", "n", "o", "r", "\"", "}", ",", " ", "\"", "c", "o", "m", "p", "o", "n", "e", "n", "t", "s", "\"", ":", " ", "[", ".", ".", ".", "]", "}">>, "object",
        [NoData EXCEPT
            !.status = JObj([indicator |-> JStr(<<"m", "i", "n", "o", "r">>),
                             description |-> JStr(<<"M", "i", "n", "o", "r", " ", "S", "e", "r", "v", "i", "c", "e", " ", "O", "u", "t", "a", "g", "e">>),
                             updated_at |-> JAbsent]),
            !.components = JList(<<[name |-> JStr(<<"A", "P", "I">>), status |-> JStr(api)],
                                   [name |-> JStr(<<"W", "e", "b">>), status |-> JStr(web)],
                                   [name |-> JStr(<<"B", "i", "l", "l", "i", "n", "g">>), status |-> JStr(<<"o", "p", "e", "r", "a", "t", "i", "o", "n", "a", "l">>)]>>)])

PollServed ==
    {NoAnswer}
    \cup {Answer(200, <<"t", "e", "x", "t", "/", "h", "t", "m", "l", ";", " ", "c", "h", "a", "r", "s", "e", "t", "=", "u", "t", "f", "-", "8">>, PollPage(api, web)) :
            api \in ComponentTexts, web \in {<<"o", "p", "e", "r", "a", "t", "i", "o", "n", "a", "l">>, <<"m", "a", "j", "o", "r", "_", "o", "u", "t", "a", "g", "e">>, <<"u", "n", "d", "e", "r", "_", "m", "a", "i", "n", "t", "e", "n", "a", "n", "c", "e">>}}
    \cup {Answer(200, <<"a", "p", "p", "l", "i", "c", "a", "t", "i", "o", "n", "/", "j", "s", "o", "n">>, PollJson(api, web)) :
            api \in ComponentTexts, web \in {<<"o", "p", "e", "r", "a", "t", "i", "o", "n", "a", "l">>, <<"m", "a", "j", "o", "r", "_", "o", "u", "t", "a", "g", "e">>, <<"u", "n", "d", "e", "r", "_", "m", "a", "i", "n", "t", "e", "n", "a", "n", "c", "e">>}}

\* the enabled SiteModule rows a site may have
ModuleLists == {<<>>, <<<<"a", "p", "i">>>>, <<<<"A", "P", "I">>, <<"W", "e", "b">>>>, <<<<"S", "e", "a", "r", "c", "h">>>>}

PollSites == {Site(VendorUrl, AUTO, FALSE), Site(VendorUrl, JSON, FALSE)}

InitPoll ==
    /\ SqlIdle /\ ParseInit /\ ClockInit /\ PipeInit /\ SchedInit /\ AdvInit
    /\ enabled_modules \in ModuleLists
    /\ last_reading = NoReading
    /\ FnInit

PollNext == \E site \in PollSites, served \in PollServed : poll_site(site, served)

SpecPoll == InitPoll /\ [][PollNext]_vars


(***************************************************************************)
(* Properties of poll_site's module filter                                 *)
(***************************************************************************)
Polled == last_parse.kind = "call" /\ last_reading # NoReading

\* the extracted components whose name matches an enabled module
Matched ==
    SelectSeq(ResultComponents(last_parse.result),
              LAMBDA comp : ModuleMatches(comp, enabled_modules))

\* OPERATIONAL < RECENTLY_RESOLVED < MAINTENANCE < DEGRADED < INCIDENT
Severity(status) ==
    CASE status = INCIDENT -> 4
      [] status = DEGRADED -> 3
      [] status = MAINTENANCE -> 2
      [] status = RECENTLY_RESOLVED -> 1
      [] OTHER -> 0

Worst(statuses) ==
    CHOOSE s \in statuses : \A t \in statuses : Severity(t) <= Severity(s)

\* the canonical statuses of the matched components
MatchedStatuses == {normalize_status(Matched[i].status.v) : i \in 1..Len(Matched)}

\* C13: when the site has enabled modules and at least one extracted
\* component matches one of them case-insensitively, the stored reading's
\* status is the worst canonical status among the matched components only.
C13_WorstOfMatched ==
    (Polled /\ enabled_modules # <<>> /\ Matched # <<>>)
        => last_reading.status = Worst(MatchedStatuses)

\* the same for the component lists of HTMLParser, which carry canonical values
C13_WorstOfMatchedHtml ==
    (Polled /\ enabled_modules # <<>> /\ Matched # <<>>
     /\ last_parse.result.source_type = "html")
        => last_reading.status = Worst(MatchedStatuses)

\* three components, only the matched one in an incident: INCIDENT is stored
C13_Example ==
    /\ Polled
    /\ enabled_modules = <<<<"a", "p", "i">>>>
    /\ last_parse.result.source_type = "html"
    /\ Len(ResultComponents(last_parse.result)) = 3
    /\ MatchedStatuses = {INCIDENT}
    /\ last_parse.result.status # INCIDENT
    /\ last_reading.status = INCIDENT

\* C14: when the enabled-module list is non-empty but no component matches,
\* the parser's status and summary are stored unchanged.
C14_NoMatchUnchanged ==
    (Polled /\ enabled_modules # <<>> /\ Matched = <<>>)
        => /\ last_reading.status = last_parse.result.status
           /\ last_reading.summary = last_parse.result.summary

\* modules are configured, components were extracted, none matches, and the
\* reading carries the parser's status
C14_Witness ==
    /\ Polled
    /\ enabled_modules = <<<<"S", "e", "a", "r", "c", "h">>>>
    /\ Len(ResultComponents(last_parse.result)) = 3
    /\ Matched = <<>>
    /\ last_reading.status = last_parse.result.status
    /\ last_reading.status = INCIDENT


(***************************************************************************)
(* Part VI: the parsers and normalizers, each applied to one input.        *)
(***************************************************************************)
Calling(fn) == fn_call.fn = fn /\ fn_return = Pending

Called_(fn) == fn_call.fn = fn /\ fn_return # Pending

\* One call JSONParser().parse(content, url).
JSONParser_parse ==
    /\ Calling("JSONParser.parse")
    /\ fn_return' = JSONParse(fn_call.args, VendorUrl)
    /\ UNCHANGED <<fn_call, fn_previous>>
    /\ UNCHANGED OutsideFn

\* status.indicator of a summary.json: the five of Statuspage, another
\* spelling, and none at all
Indicators ==
    {JStr(<<"n", "o", "n", "e">>), JStr(<<"m", "i", "n", "o", "r">>), JStr(<<"m", "a", "j", "o", "r">>), JStr(<<"c", "r", "i", "t", "i", "c", "a", "l">>),
     JStr(<<"m", "a", "i", "n", "t", "e", "n", "a", "n", "c", "e">>), JStr(<<"M", "a", "j", "o", "r">>), JAbsent}

\* a component's status: the texts of Statuspage, an unlisted one, and none
ComponentStatuses ==
    {JStr(<<"o", "p", "e", "r", "a", "t", "i", "o", "n", "a", "l">>), JStr(<<"d", "e", "g", "r", "a", "d", "e", "d", "_", "p", "e", "r", "f", "o", "r", "m", "a", "n", "c", "e">>), JStr(<<"m", "a", "j", "o", "r", "_", "o", "u", "t", "a", "g", "e">>),
     JStr(<<"u", "n", "d", "e", "r", "_", "m", "a", "i", "n", "t", "e", "n", "a", "n", "c", "e">>), JStr(<<"o", "f", "f", "l", "i", "n", "e">>), JAbsent}

Component(name, status) == [name |-> JStr(name), status |-> status]

\* documents in the shape of summary.json with one or two components
SummaryDocs ==
    {JsonContent(<<"{", "\"", "s", "t", "a", "t", "u", "s", "\"", ":", " ", "{", ".", ".", ".", "}", ",", " ", "\"", "c", "o", "m", "p", "o", "n", "e", "n", "t", "s", "\"", ":", " ", "[", ".", ".", ".", "]", "}">>, "object",
        [NoData EXCEPT
            !.status = JObj([indicator |-> indicator, description |-> JAbsent,
                             updated_at |-> JAbsent]),
            !.components = JList(components)]) :
        indicator \in Indicators,
        components \in {<<Component(<<"A", "P", "I">>, s)>> : s \in ComponentStatuses}
                       \cup {<<Component(<<"A", "P", "I">>, s), Component(<<"W", "e", "b">>, t)>> :
                                s, t \in ComponentStatuses}}

\* documents of any other shape: some of the keys the generic branch looks
\* for, the status a plain string when present
GenericDocs ==
    {JsonContent(<<"{", ".", ".", ".", "}">>, "object",
        [NoData EXCEPT !.status = status, !.state = state, !.health = health,
                       !.overall_status = overall_status]) :
        status \in {JAbsent, JStr(<<"d", "o", "w", "n">>), JStr(<<"o", "p", "e", "r", "a", "t", "i", "o", "n", "a", "l">>)},
        state \in {JAbsent, JStr(<<"O", "K">>), JStr(<<"d", "e", "g", "r", "a", "d", "e", "d">>)},
        health \in {JAbsent, JStr(<<"h", "e", "a", "l", "t", "h", "y">>)},
        overall_status \in {JAbsent, JStr(<<"m", "a", "j", "o", "r", " ", "o", "u", "t", "a", "g", "e">>)}}

JsonCalls ==
    {[fn |-> "JSONParser.parse", args |-> content] :
        content \in SummaryDocs \cup GenericDocs}

(***************************************************************************)
(* Properties of JSONParser.parse                                          *)
(***************************************************************************)
\* the document of the call, when JSONParser.parse was called and is done
Parsed == Called_("JSONParser.parse")

Doc == fn_call.args.data

IndicatorStatus ==
    map_indicator_to_status(LowerStr(Get(Doc.status.v, "indicator", JStr(<<>>)).v))

ComponentAggregate == normalize_component_statuses(Doc.components.v)

Ordered == {OPERATIONAL, RECENTLY_RESOLVED, MAINTENANCE, DEGRADED, INCIDENT}

\* a summary.json with a status object and a non-empty component list
C15_Case ==
    /\ Parsed
    /\ Doc.status # JAbsent /\ Doc.status.t = "obj"
    /\ Doc.components # JAbsent /\ Doc.components.v # <<>>

\* C15: for a document with a top-level status object and a non-empty
\* components list, JSONParser.parse returns the worse of the indicator's
\* status and the components' aggregate status, under OPERATIONAL <
\* RECENTLY_RESOLVED < MAINTENANCE < DEGRADED < INCIDENT, for every
\* combination of the two.
C15_WorseOfBoth ==
    (C15_Case /\ IndicatorStatus \in Ordered /\ ComponentAggregate \in Ordered)
        => /\ fn_return.ok
           /\ fn_return.value.status = Worst({IndicatorStatus, ComponentAggregate})

\* what the code guarantees: the aggregate whenever it is not OPERATIONAL
C15_AggregateUnlessOperational ==
    C15_Case =>
        /\ fn_return.ok
        /\ fn_return.value.status =
               IF ComponentAggregate # OPERATIONAL THEN ComponentAggregate
               ELSE IndicatorStatus

\* the first of status, state, health, overall_status the document has
FirstStatusKey ==
    SelectSeq(generic_status_keys, LAMBDA k : Doc[k] # JAbsent)

\* C16: for a document that is not in the shape of summary.json the parser
\* returns normalize_status of the first present key among status, state,
\* health, overall_status, UNKNOWN when there is none; a top-level status
\* that is a plain string is normalized through that string, nothing raises.
C16_GenericFirstKey ==
    (Parsed /\ (Doc.status = JAbsent \/ Doc.status.t = "str"))
        => /\ fn_return.ok
           /\ fn_return.value.status =
                  IF FirstStatusKey = <<>> THEN UNKNOWN
                  ELSE normalize_status(Doc[FirstStatusKey[1]].v)

\* the same without a top-level status key
C16_GenericWithoutStatus ==
    (Parsed /\ Doc.status = JAbsent)
        => /\ fn_return.ok
           /\ fn_return.value.status =
                  IF FirstStatusKey = <<>> THEN UNKNOWN
                  ELSE normalize_status(Doc[FirstStatusKey[1]].v)


(***************************************************************************)
(* utils/normalizer.py as called on its own                                *)
(***************************************************************************)
\* normalize_status(status_text) for a str or None: `if not status_text`
\* answers UNKNOWN for both None and "".
normalize_status_arg(status_text) ==
    IF ~Truthy(status_text) THEN UNKNOWN ELSE normalize_status(status_text.v)

\* One call normalize_status(status_text).
NormalizeStatus ==
    /\ Calling("normalize_status")
    /\ fn_return' = Returns(normalize_status_arg(fn_call.args))
    /\ UNCHANGED <<fn_call, fn_previous>>
    /\ UNCHANGED OutsideFn

\* One call normalize_component_statuses(components).
NormalizeComponentStatuses ==
    /\ Calling("normalize_component_statuses")
    /\ fn_return' = Returns(normalize_component_statuses(fn_call.args))
    /\ UNCHANGED <<fn_call, fn_previous>>
    /\ UNCHANGED OutsideFn

Range(seq) == {seq[i] : i \in 1..Len(seq)}

PatternsOf(status) ==
    UNION {Range(STATUS_PATTERNS[i].patterns) :
              i \in {j \in 1..Len(STATUS_PATTERNS) : STATUS_PATTERNS[j].status = status}}

AllPatterns == UNION {Range(STATUS_PATTERNS[i].patterns) : i \in 1..Len(STATUS_PATTERNS)}

\* the words texts are made of: every pattern, the phrases of the tests and
\* words without any pattern
Vocabulary ==
    AllPatterns \cup {<<"R", "a", "n", "d", "o", "m", " ", "T", "e", "x", "t">>, <<"O", "K">>, <<"D", "e", "g", "r", "a", "d", "e", "d", " ", "P", "e", "r", "f", "o", "r", "m", "a", "n", "c", "e">>,
                      <<"I", "n", "v", "e", "s", "t", "i", "g", "a", "t", "i", "n", "g", " ", "I", "s", "s", "u", "e">>, <<"S", "e", "r", "v", "i", "c", "e">>, <<" ">>}

Texts == {<<>>} \cup Vocabulary \cup {w1 \o <<" ">> \o w2 : w1, w2 \in Vocabulary}

StatusCalls ==
    {[fn |-> "normalize_status", args |-> None]}
    \cup {[fn |-> "normalize_status", args |-> JStr(text)] : text \in Texts}

\* component lists of up to MaxComponents entries
MaxComponents == 3

ComponentLists ==
    UNION {[1..n -> {Component(<<"A", "P", "I">>, s) : s \in ComponentStatuses}] : n \in 0..MaxComponents}

ComponentCalls ==
    {[fn |-> "normalize_component_statuses", args |-> components] :
        components \in ComponentLists}

(***************************************************************************)
(* Properties of the normalizers                                           *)
(***************************************************************************)
\* incident > degraded > maintenance > operational > unknown
Priority(status) ==
    CASE status = INCIDENT -> 4
      [] status = DEGRADED -> 3
      [] status = MAINTENANCE -> 2
      [] status = OPERATIONAL -> 1
      [] OTHER -> 0

\* the status of each component of the call
StatusesOf(components) ==
    {normalize_status(Get(components[i], "status", JStr(<<>>)).v) :
        i \in 1..Len(components)}

Reordered(components, p) == [i \in 1..Len(components) |-> components[p[i]]]

\* C17: normalize_component_statuses returns the single worst status of the
\* list, whatever the order of the components: INCIDENT wins, then DEGRADED,
\* MAINTENANCE, OPERATIONAL; the empty list gives UNKNOWN.
C17_WorstWins ==
    Called_("normalize_component_statuses") =>
        LET components == fn_call.args
            worst == fn_return.value
        IN  /\ fn_return.ok
            /\ components = <<>> => worst = UNKNOWN
            /\ components # <<>> =>
                   /\ worst \in StatusesOf(components)
                   /\ \A s \in StatusesOf(components) : Priority(s) <= Priority(worst)
            /\ \A p \in Permutations(1..Len(components)) :
                   normalize_component_statuses(Reordered(components, p)) = worst

\* an incident listed last among three components wins
C17_Witness ==
    /\ Called_("normalize_component_statuses")
    /\ Len(fn_call.args) = 3
    /\ StatusesOf(fn_call.args) = {OPERATIONAL, DEGRADED, INCIDENT}
    /\ normalize_status(fn_call.args[3].status.v) = INCIDENT
    /\ fn_return.value = INCIDENT

CanonicalStatuses ==
    {OPERATIONAL, DEGRADED, INCIDENT, MAINTENANCE, RECENTLY_RESOLVED, UNKNOWN}

\* the text a call of normalize_status matches its patterns against
TextLower == Strip(LowerStr(fn_call.args.v))

\* C18: for every text, the empty string and None included, normalize_status
\* returns one of the six canonical statuses, never raises and never returns
\* null; a text without any pattern gives UNKNOWN.
C18_AlwaysCanonical ==
    Called_("normalize_status") =>
        /\ fn_return.ok
        /\ fn_return.value \in CanonicalStatuses
        /\ (fn_call.args = None \/ (\A pattern \in AllPatterns : ~Contains(TextLower, pattern)))
               => fn_return.value = UNKNOWN

\* None was normalized to UNKNOWN
C18_Witness ==
    /\ Called_("normalize_status")
    /\ fn_call.args = None
    /\ fn_return.ok
    /\ fn_return.value = UNKNOWN

\* a text of two words without any pattern was normalized to UNKNOWN
C18_WitnessText ==
    /\ Called_("normalize_status")
    /\ fn_call.args = JStr(<<"R", "a", "n", "d", "o", "m", " ", "T", "e", "x", "t", " ", "S", "e", "r", "v", "i", "c", "e">>)
    /\ fn_return.value = UNKNOWN

\* C19: a text that contains a DEGRADED pattern is never normalized to
\* OPERATIONAL, whatever OPERATIONAL patterns (up, ok, normal, available)
\* it also contains.
C19_DegradedNotShadowed ==
    (Called_("normalize_status") /\ fn_call.args # None
     /\ \E pattern \in PatternsOf(DEGRADED) : Contains(TextLower, pattern))
        => fn_return.value # OPERATIONAL

\* the degraded phrases of the tests, which hold no OPERATIONAL pattern
C19_TestPhrases ==
    (Called_("normalize_status")
     /\ fn_call.args \in {JStr(<<"D", "e", "g", "r", "a", "d", "e", "d", " ", "P", "e", "r", "f", "o", "r", "m", "a", "n", "c", "e">>), JStr(<<"I", "n", "v", "e", "s", "t", "i", "g", "a", "t", "i", "n", "g", " ", "I", "s", "s", "u", "e">>)})
        => fn_return.value = DEGRADED


(***************************************************************************)
(* parsers/rss_parser.py as called on its own                              *)
(***************************************************************************)
\* One call RSSParser().parse(content, url).
RSSParser_parse ==
    /\ Calling("RSSParser.parse")
    /\ fn_return' = RSSParse(fn_call.args, VendorUrl)
    /\ UNCHANGED <<fn_call, fn_previous>>
    /\ UNCHANGED OutsideFn

\* the clock is followed for MaxHours hours
MaxHours == 24

\* hours that pass between two polls of the feed
Waits == {0, 1, 22}

\* `hours` hours pass after a call of RSSParser.parse; the next poll will
\* hand the same content to the parser.
next_poll(hours) ==
    /\ Called_("RSSParser.parse")
    /\ utcnow + hours <= UtcNow + MaxHours
    /\ utcnow' = utcnow + hours
    /\ fn_previous' = [at |-> utcnow, returned |-> fn_return]
    /\ fn_return' = Pending
    /\ UNCHANGED fn_call
    /\ UNCHANGED <<sqlvars, parsevars, schedvars, advvars, pollvars, pipevars>>

Hour(h) == [t |-> "time", v |-> h]

Entry(title, summary, published_parsed) ==
    [title |-> title, summary |-> summary, link |-> <<"h", "t", "t", "p", "s", ":", "/", "/", "s", "t", "a", "t", "u", "s", ".", "v", "e", "n", "d", "o", "r", ".", "i", "o", "/", "i", "/", "1">>,
     published_parsed |-> published_parsed]

\* entries published in the past, now, or without a date
PastEntries ==
    {Entry(<<"A", "P", "I", " ", "o", "u", "t", "a", "g", "e">>, <<"<", "p", ">", "W", "e", " ", "a", "r", "e", " ", "i", "n", "v", "e", "s", "t", "i", "g", "a", "t", "i", "n", "g", " ", "t", "h", "i", "s", " ", "i", "s", "s", "u", "e", ".", "<", "/", "p", ">">>, Hour(UtcNow - 2)),
     Entry(<<"E", "l", "e", "v", "a", "t", "e", "d", " ", "e", "r", "r", "o", "r", " ", "r", "a", "t", "e", "s">>, <<"<", "p", ">", "W", "e", " ", "a", "r", "e", " ", "i", "n", "v", "e", "s", "t", "i", "g", "a", "t", "i", "n", "g", " ", "&", "a", "m", "p", ";", " ", "m", "o", "n", "i", "t", "o", "r", "i", "n", "g", ".", "<", "/", "p", ">">>, Hour(UtcNow - 1)),
     Entry(<<"L", "o", "g", "i", "n", " ", "e", "r", "r", "o", "r", "s">>, <<"T", "h", "i", "s", " ", "i", "n", "c", "i", "d", "e", "n", "t", " ", "h", "a", "s", " ", "b", "e", "e", "n", " ", "r", "e", "s", "o", "l", "v", "e", "d", ".">>, Hour(UtcNow - 5)),
     Entry(<<"D", "a", "t", "a", "b", "a", "s", "e", " ", "o", "u", "t", "a", "g", "e">>, <<"R", "e", "s", "o", "l", "v", "e", "d">>, Hour(UtcNow - 30)),
     Entry(<<"S", "c", "h", "e", "d", "u", "l", "e", "d", " ", "m", "a", "i", "n", "t", "e", "n", "a", "n", "c", "e">>, <<"<", "b", ">", "P", "l", "a", "n", "n", "e", "d", "<", "/", "b", ">", " ", "d", "a", "t", "a", "b", "a", "s", "e", " ", "u", "p", "g", "r", "a", "d", "e">>, Hour(UtcNow - 3)),
     Entry(<<"S", "e", "r", "v", "i", "c", "e", " ", "d", "i", "s", "r", "u", "p", "t", "i", "o", "n">>, <<>>, JAbsent),
     Entry(<<"S", "l", "o", "w", " ", "r", "e", "s", "p", "o", "n", "s", "e", "s">>, <<"S", "o", "m", "e", " ", "r", "e", "q", "u", "e", "s", "t", "s", " ", "a", "r", "e", " ", "s", "l", "o", "w">>, Hour(UtcNow))}

\* entries published after utcnow(), with outage keywords
FutureEntries ==
    {Entry(<<"M", "a", "j", "o", "r", " ", "o", "u", "t", "a", "g", "e">>, <<"C", "r", "i", "t", "i", "c", "a", "l", " ", "o", "u", "t", "a", "g", "e", ",", " ", "a", "l", "l", " ", "s", "e", "r", "v", "i", "c", "e", "s", " ", "a", "r", "e", " ", "d", "o", "w", "n">>, Hour(UtcNow + 8760)),
     Entry(<<"O", "u", "t", "a", "g", "e">>, <<"S", "e", "r", "v", "i", "c", "e", " ", "u", "n", "a", "v", "a", "i", "l", "a", "b", "l", "e">>, Hour(UtcNow + 1))}

Entries == PastEntries \cup FutureEntries

XmlHead == <<"<", "?", "x", "m", "l", " ", "v", "e", "r", "s", "i", "o", "n", "=", "\"", "1", ".", "0", "\"", "?", ">", "<", "r", "s", "s", " ", "v", "e", "r", "s", "i", "o", "n", "=", "\"", "2", ".", "0", "\"", ">", "<", "c", "h", "a", "n", "n", "e", "l", ">">>

FeedContent(bozo, entries) == [TextContent(XmlHead, bozo) EXCEPT !.entries = entries]

\* the entry of the feed model that is older than 24 hours, and resolved
OldEntry ==
    Entry(<<"D", "a", "t", "a", "b", "a", "s", "e", " ", "o", "u", "t", "a", "g", "e">>, <<"R", "e", "s", "o", "l", "v", "e", "d">>, Hour(UtcNow - 30))

\* feeds whose entry follows EntryLimit older ones
LongFeeds == {[i \in 1..EntryLimit |-> OldEntry] \o <<e>> : e \in Entries}

\* feeds of up to two entries, and feeds that fill the first EntryLimit places
Feeds ==
    {<<>>} \cup {<<e>> : e \in Entries} \cup {<<e, f>> : e, f \in Entries}
    \cup {[i \in 1..(EntryLimit - 1) |->
              Entry(<<"D", "a", "t", "a", "b", "a", "s", "e", " ", "o", "u", "t", "a", "g", "e">>, <<"R", "e", "s", "o", "l", "v", "e", "d">>, Hour(UtcNow - 30))] \o <<e>> :
            e \in Entries}

FeedCalls ==
    {[fn |-> "RSSParser.parse", args |-> FeedContent(bozo, entries)] :
        bozo \in BOOLEAN, entries \in Feeds \cup LongFeeds}

(***************************************************************************)
(* Properties of RSSParser.parse                                           *)
(***************************************************************************)
\* the feed of the call with one more entry at its end
Appended(entry) ==
    [fn_call.args EXCEPT !.entries = Append(@, entry)]

Outcome(returned) ==
    IF returned.ok
    THEN <<returned.value.status, returned.value.summary,
           returned.value.last_changed_at>>
    ELSE <<returned>>

\* where an entry published at `published` stands at clock reading `now`
AgeClass(published, now) ==
    IF published = JAbsent THEN "undated"
    ELSE IF now < published.v THEN "future"
    ELSE IF now - published.v < 24 THEN "recent"
    ELSE "older"

\* no entry has become current or left the 24 hours between the two readings
SameAges(entries, before, now) ==
    \A i \in 1..Len(entries) :
        AgeClass(entries[i].published_parsed, before)
            = AgeClass(entries[i].published_parsed, now)

\* the call was made before, with the same content
Reparsed == Called_("RSSParser.parse") /\ fn_previous # Pending

\* C21 as stated: parsing identical feed content again yields an identical
\* (status, summary, last_changed_at) triple on every call.
C21_SameTriple ==
    Reparsed => Outcome(fn_return) = Outcome(fn_previous.returned)

\* C21: parsing identical feed content again yields an identical (status,
\* summary, last_changed_at) triple whenever no entry has, between the two
\* calls, passed from the future to the present or out of the last 24 hours;
\* in particular when both calls read the same clock.
C21_SameTripleSameAges ==
    (Reparsed /\ SameAges(fn_call.args.entries, fn_previous.at, utcnow))
        => Outcome(fn_return) = Outcome(fn_previous.returned)

\* a feed with an open incident was parsed again an hour or more later, the
\* incident still within its 24 hours, and is still reported DEGRADED
C21_Witness ==
    /\ Reparsed
    /\ utcnow > fn_previous.at
    /\ fn_call.args.entries # <<>>
    /\ SameAges(fn_call.args.entries, fn_previous.at, utcnow)
    /\ fn_return.ok
    /\ fn_return.value.status = DEGRADED
    /\ fn_return.value.last_changed_at = Hour(UtcNow - 1)
    /\ Outcome(fn_return) = Outcome(fn_previous.returned)


\* entry i of the parsed feed is neither future-dated nor informational, lies
\* within the last 24 hours, and is resolved / is not
RecentEntry(i, resolved) ==
    /\ AgeClass(fn_call.args.entries[i].published_parsed, utcnow) = "recent"
    /\ ~Mentions(fn_call.args.entries[i], informational_keywords)
    /\ Mentions(fn_call.args.entries[i], resolved_keywords) = resolved

\* the status decided by strict priority over the entries at `positions`
PriorityStatus(status, positions) ==
    IF \E i \in positions : RecentEntry(i, FALSE)
    THEN status \in {INCIDENT, DEGRADED, MAINTENANCE}
    ELSE IF \E i \in positions : RecentEntry(i, TRUE)
    THEN status = RECENTLY_RESOLVED
    ELSE status = OPERATIONAL

ParsedFeed == Called_("RSSParser.parse") /\ fn_return.ok

\* C22 as stated: the status is decided by strict priority over the
\* non-future, non-informational entries of the feed: an unresolved entry
\* within the last 24 hours gives INCIDENT, DEGRADED or MAINTENANCE, otherwise
\* a resolved one gives RECENTLY_RESOLVED, otherwise OPERATIONAL.
C22_StatusPriority ==
    ParsedFeed =>
        PriorityStatus(fn_return.value.status, 1..Len(fn_call.args.entries))

\* C22: the status is decided by strict priority over the non-future,
\* non-informational entries among the first 20 of the feed: an unresolved
\* entry within the last 24 hours gives INCIDENT, DEGRADED or MAINTENANCE,
\* otherwise a resolved one gives RECENTLY_RESOLVED, otherwise OPERATIONAL;
\* older, informational and later entries never change the status.
C22_StatusPriorityFirst20 ==
    ParsedFeed =>
        PriorityStatus(fn_return.value.status,
                       {i \in 1..Len(fn_call.args.entries) : i <= 20})

\* a feed with a resolved and an unresolved entry, both within the last 24
\* hours, was parsed, and the unresolved one decided
C22_Witness ==
    /\ ParsedFeed
    /\ Len(fn_call.args.entries) = 2
    /\ RecentEntry(1, TRUE)
    /\ RecentEntry(2, FALSE)
    /\ fn_return.value.status = INCIDENT


(***************************************************************************)
(* parsers/html_parser.py as called on its own                             *)
(***************************************************************************)
\* One call HTMLParser().parse(content, url) on a new parser.
HTMLParser_parse ==
    /\ Calling("HTMLParser.parse")
    /\ fn_return' = HTMLParse(FreshHTMLParser, fn_call.args, fn_call.url).outcome
    /\ UNCHANGED <<fn_call, fn_previous>>
    /\ UNCHANGED OutsideFn

\* a page in none of the dialects, without a status keyword
PagePlain ==
    HtmlContent(<<"W", "e", "l", "c", "o", "m", "e">>, <<[Elem EXCEPT !.tag = "p", !.text = <<"N", "o", "t", "h", "i", "n", "g", " ", "t", "o", " ", "s", "e", "e", " ", "h", "e", "r", "e">>]>>)

DialectPages ==
    {PageM365Incident, PageM365Healthy, PageSignIn, PageStatuspage, PageVeeva,
     PageHeaderOutage, PagePlain}

\* the elements of two pages in one document
Combined(first, second) ==
    HtmlContent(first.page.title, first.page.elems \o second.page.elems)

HtmlCalls ==
    {[fn |-> "HTMLParser.parse", args |-> content, url |-> url] :
        content \in DialectPages \cup {Combined(p, q) : p, q \in DialectPages},
        url \in Urls}

(***************************************************************************)
(* Properties of HTMLParser.parse                                          *)
(***************************************************************************)
\* the attributes of the parser when the extractors start
AtStart == [FreshHTMLParser EXCEPT !.has_components = TRUE]

\* what an extractor returns for the page of the call, run on its own
Alone(extractor) ==
    CASE extractor = "microsoft365" ->
             extract_status_microsoft365(AtStart, fn_call.args.page)
      [] extractor = "veeva" -> extract_status_veeva(AtStart, fn_call.args.page)
      [] extractor = "statuspage_io" ->
             extract_status_statuspage_io(AtStart, fn_call.args.page)
      [] extractor = "generic" -> extract_status_generic(AtStart, fn_call.args.page)

\* admin-portal, trust-portal, generic status-page, generic fallback
DialectOrder == <<"microsoft365", "veeva", "statuspage_io", "generic">>

\* the extractors the call ran
Ran == HTMLRuns(FreshHTMLParser, fn_call.args.page, fn_call.url)

\* the first of `chain` that returns a status other than UNKNOWN, or the last
FirstKnown(chain) ==
    IF \E i \in 1..Len(chain) : Alone(chain[i]).status # UNKNOWN
    THEN chain[CHOOSE i \in 1..Len(chain) :
                   /\ Alone(chain[i]).status # UNKNOWN
                   /\ \A j \in 1..(i - 1) : Alone(chain[j]).status = UNKNOWN]
    ELSE chain[Len(chain)]

\* the call ran the extractors of `chain` up to the first that knew the
\* status, in order, and returned what that one returned
ShortCircuit(chain) ==
    /\ \E n \in 1..Len(chain) :
           /\ Ran = SubSeq(chain, 1, n)
           /\ chain[n] = FirstKnown(chain)
    /\ fn_return.value.status = Alone(FirstKnown(chain)).status
    /\ fn_return.value.summary = Alone(FirstKnown(chain)).summary

\* C23 as stated: HTMLParser.parse tries admin-portal, trust-portal, generic
\* status-page and generic fallback in this order, each only if every earlier
\* one returned UNKNOWN, and returns the status and summary of the first that
\* returned a status other than UNKNOWN, or of the last.
C23_FixedChain ==
    Called_("HTMLParser.parse") => ShortCircuit(DialectOrder)

\* C23: for a url of the Microsoft 365 admin center the chain is admin-portal,
\* trust-portal, generic status-page, generic fallback; for any other url the
\* admin-portal extractor is not run and the chain starts at trust-portal.
\* Each extractor of the chain runs only if every earlier one returned
\* UNKNOWN, and the status and summary returned are those of the first that
\* returned a status other than UNKNOWN, or of the last.
C23_ChainByUrl ==
    Called_("HTMLParser.parse") =>
        ShortCircuit(IF IsM365Url(fn_call.url) THEN DialectOrder
                     ELSE Tail(DialectOrder))

\* a page that both the trust-portal and the status-page extractor know was
\* parsed: only the trust-portal extractor ran
C23_Witness ==
    /\ Called_("HTMLParser.parse")
    /\ Alone("veeva").status # UNKNOWN
    /\ Alone("statuspage_io").status # UNKNOWN
    /\ Alone("statuspage_io").status # Alone("veeva").status
    /\ Ran = <<"veeva">>
    /\ fn_return.value.status = Alone("veeva").status


(***************************************************************************)
(* SQLQueryGenerator._validate_policy as a call.                           *)
(***************************************************************************)
SQLQueryGenerator_validate_policy ==
    /\ Calling("SQLQueryGenerator._validate_policy")
    /\ fn_return' = Returns(ValidatePolicy(fn_call.args.sql, fn_call.args.task))
    /\ UNCHANGED <<fn_call, fn_previous>>
    /\ UNCHANGED OutsideFn

\* The tokens of FORBIDDEN_TOKENS.
ForbiddenTokens == {FORBIDDEN_TOKENS[k].token : k \in 1..Len(FORBIDDEN_TOKENS)}

\* SQL texts for the validator: each forbidden token alone and inside a
\* query, and the hand-written queries.
PolicyTexts ==
    ForbiddenTokens
    \cup {<<"SELECT">> \o token \o <<"FROM", "readings">> : token \in ForbiddenTokens}
    \cup {QUptime, QRecipe, QNames}

\* task defaults to "".
PolicyCalls ==
    {[fn |-> "SQLQueryGenerator._validate_policy", args |-> [sql |-> text, task |-> t]] :
        text \in PolicyTexts, t \in {<<>>, TaskUptime}}

\* The violation tags a call of _validate_policy returned.
Violations == {fn_return.value[k] : k \in 1..Len(fn_return.value)}

\* Queries that follow every rule the prompts state, each with its task.
CompliantCalls ==
    {[sql |-> QUptime, task |-> TaskUptime], [sql |-> QRecipe, task |-> TaskUptime],
     [sql |-> QNames, task |-> <<>>]}

\* C25 (first half): every SQL text that contains a token of the
\* forbidden-token list gets that token's wrong_dialect_token violation.
C25_EveryTokenRejected ==
    Called_("SQLQueryGenerator._validate_policy") =>
        \A k \in 1..Len(FORBIDDEN_TOKENS) :
            Contains(fn_call.args.sql, FORBIDDEN_TOKENS[k].token)
                => FORBIDDEN_TOKENS[k].tag \in Violations

\* C25: _validate_policy returns a wrong_dialect_token violation for every SQL
\* text containing a token of the forbidden-token list, and an empty violation
\* list for a compliant hand-written query, the time-weighted uptime query
\* built by the recipe of the prompts included.
C25_TokensRejectedRecipeAccepted ==
    Called_("SQLQueryGenerator._validate_policy") =>
        /\ \A k \in 1..Len(FORBIDDEN_TOKENS) :
               Contains(fn_call.args.sql, FORBIDDEN_TOKENS[k].token)
                   => FORBIDDEN_TOKENS[k].tag \in Violations
        /\ fn_call.args \in CompliantCalls => fn_return.value = <<>>

\* The recipe's query, validated for the uptime task, is refused for its
\* column names.
C25_RecipeRefused ==
    /\ Called_("SQLQueryGenerator._validate_policy")
    /\ fn_call.args.sql = QRecipe
    /\ fn_call.args.task = TaskUptime
    /\ fn_return.value = <<"wrong_dialect_token(INTERVAL)">>

\* The same query with the bounds named seg_start and seg_end is accepted.
C25_RenamedAccepted ==
    /\ Called_("SQLQueryGenerator._validate_policy")
    /\ fn_call.args.sql = QUptime
    /\ fn_call.args.task = TaskUptime
    /\ fn_return.value = <<>>

(***************************************************************************)
(* The specification of Part VI: the call is drawn, then made.             *)
(***************************************************************************)
InitFn ==
    /\ SqlIdle /\ ParseInit /\ ClockInit /\ PipeInit /\ SchedInit /\ AdvInit /\ PollInit
    /\ \/ fn_call \in JsonCalls
       \/ fn_call \in StatusCalls
       \/ fn_call \in ComponentCalls
       \/ fn_call \in FeedCalls
       \/ fn_call \in HtmlCalls
       \/ fn_call \in PolicyCalls
    /\ fn_return = Pending
    /\ fn_previous = Pending

FnNext ==
    \/ JSONParser_parse
    \/ NormalizeStatus
    \/ NormalizeComponentStatuses
    \/ RSSParser_parse
    \/ \E hours \in Waits : next_poll(hours)
    \/ HTMLParser_parse
    \/ SQLQueryGenerator_validate_policy

SpecFn == InitFn /\ [][FnNext]_vars


(***************************************************************************)
(* Part VII: PollingScheduler.poll_site as the steps between its awaits:    *)
(* the parse and the reading (lines 106-198), the advisories (200-210),     *)
(* the notification (212-234) and the handler of lines 236-252.  Polls of   *)
(* the one site run one after another here; their overlap is Part III.      *)
(* Times are whole hours.                                                   *)
(***************************************************************************)
\* bound: polls followed when only the notification policy varies
MaxPolls == 3

\* bound: polls followed when every step may fail
MaxFailingPolls == 2

\* AppSettings.notification_cooldown_minutes
notification_cooldown_minutes == 60

MinutesPerHour == 60

\* a row of the readings table: the poll that created it, and what it holds
ReadingRow(id, status, source_type, error_message) ==
    [poll |-> id, status |-> status, source_type |-> source_type,
     error_message |-> error_message]

\* EmailNotifier.should_notify(site, new_status, old_status)
\* Mutant: the cooldown test of lines 59-68 is left out.
should_notify_NoCooldown(site, new_status, old_status) ==
    IF ~email_configured THEN FALSE
    ELSE IF new_status = old_status THEN FALSE
    ELSE IF /\ old_status = OPERATIONAL
            /\ new_status \notin {OPERATIONAL, RECENTLY_RESOLVED}
    THEN TRUE
    ELSE IF old_status = OPERATIONAL /\ new_status = RECENTLY_RESOLVED THEN TRUE
    ELSE IF /\ old_status \in {DEGRADED, INCIDENT, MAINTENANCE}
            /\ new_status \in {OPERATIONAL, RECENTLY_RESOLVED}
            /\ site.last_notified_status # None
            /\ site.last_notified_status.v \notin {OPERATIONAL, RECENTLY_RESOLVED}
    THEN TRUE
    ELSE FALSE

should_notify(site, new_status, old_status) ==
    IF ~email_configured THEN FALSE
    ELSE IF new_status = old_status THEN FALSE
    ELSE IF /\ site.last_notified_at # None
            /\ (utcnow - site.last_notified_at.v) * MinutesPerHour
                   < notification_cooldown_minutes
    THEN FALSE
    ELSE IF /\ old_status = OPERATIONAL
            /\ new_status \notin {OPERATIONAL, RECENTLY_RESOLVED}
    THEN TRUE
    ELSE IF old_status = OPERATIONAL /\ new_status = RECENTLY_RESOLVED THEN TRUE
    ELSE IF /\ old_status \in {DEGRADED, INCIDENT, MAINTENANCE}
            /\ new_status \in {OPERATIONAL, RECENTLY_RESOLVED}
            /\ site.last_notified_status # None
            /\ site.last_notified_status.v \notin {OPERATIONAL, RECENTLY_RESOLVED}
    THEN TRUE
    ELSE FALSE

\* EmailNotifier.send_notification: False without configuration and when
\* SMTP raises
send_notification(smtp_ok) == email_configured /\ smtp_ok

\* Mutant: a provider exception leaves analyze_advisory.
analyze_advisory_Reraise(provider) ==
    IF provider = "unconfigured" THEN "fallback"
    ELSE IF provider = "raises" THEN "raised"
    ELSE "llm"

\* LLMService.analyze_advisory: which analyzer's answer the caller gets
analyze_advisory(provider) ==
    IF provider = "unconfigured" THEN "fallback"
    ELSE IF provider = "raises" THEN "fallback"
    ELSE "llm"

\* the except branch of poll_site: the error reading
PollFailed(e) ==
    /\ readings' = Append(readings, ReadingRow(poll.id, UNKNOWN, "error", e))
    /\ poll' = [poll EXCEPT !.pc = "done", !.failed = e]

\* The interval has passed and poll_site(site_id) starts: the site is found
\* and active, and the coroutine awaits parser_factory.parse_url.  The
\* scheduler is followed for `limit` polls.
poll_site_start(hours, limit) ==
    /\ poll.pc \in {"idle", "done"}
    /\ poll.id < limit
    /\ utcnow' = utcnow + hours
    /\ poll' = [NoPoll EXCEPT !.pc = "parse", !.id = poll.id + 1]
    /\ UNCHANGED <<readings, site_row, sent, email_configured>>
    /\ UNCHANGED <<sqlvars, parsevars, schedvars, advvars, pollvars, fnvars>>

\* parse_url has returned `status`; the module filter, the previous reading
\* and the new Reading follow without suspending.  `raised` is an exception
\* of these lines.
poll_site_reading(status, raised) ==
    /\ poll.pc = "parse"
    /\ IF raised # None THEN PollFailed(raised)
       ELSE /\ readings' = Append(readings,
                    ReadingRow(poll.id, status,
                               IF status = UNKNOWN THEN "error" ELSE "html", None))
            /\ poll' = [poll EXCEPT
                   !.pc = "advisories",
                   !.new_status = status,
                   !.old_status = IF readings = <<>> THEN UNKNOWN
                                  ELSE readings[Len(readings)].status]
    /\ UNCHANGED <<site_row, sent, email_configured>>
    /\ UNCHANGED OutsidePipe

\* AdvisoryService.process_site_advisories inside the try of lines 201-210:
\* `found` advisories are in the feed; the provider is unconfigured, answers
\* or raises; `raised` is an exception of the advisory processing itself.
poll_site_advisories(found, provider, raised) ==
    /\ poll.pc = "advisories"
    /\ poll' = [poll EXCEPT
           !.pc = "notify",
           !.provider = IF found THEN provider ELSE "not called",
           !.analysis = IF found /\ raised = None THEN analyze_advisory(provider)
                        ELSE "none",
           !.advisory_error = raised]
    /\ UNCHANGED <<readings, site_row, sent, email_configured>>
    /\ UNCHANGED OutsidePipe

\* Mutant: the tracking is written as soon as the policy decides to notify.
Tracked_OnDecision(site, notify, success, new_status) ==
    IF notify
    THEN [last_notified_at |-> Hour(utcnow), last_notified_status |-> Some(new_status)]
    ELSE site

\* Lines 216-225: the site row after the notification step, `notify` being
\* what should_notify returned and `success` what send_notification returned
\* (called only when notify is true).
Tracked(site, notify, success, new_status) ==
    IF notify /\ success
    THEN [last_notified_at |-> Hour(utcnow), last_notified_status |-> Some(new_status)]
    ELSE site

\* Lines 212-234: should_notify, send_notification and the site's
\* notification tracking.  `raised` is an exception of the settings lookup
\* in should_notify.
poll_site_notify(smtp_ok, raised) ==
    /\ poll.pc = "notify"
    /\ IF raised # None
       THEN PollFailed(raised) /\ UNCHANGED <<site_row, sent>>
       ELSE /\ poll' = [poll EXCEPT
                   !.pc = "done",
                   !.notify = should_notify(site_row, poll.new_status, poll.old_status),
                   !.success = /\ should_notify(site_row, poll.new_status, poll.old_status)
                               /\ send_notification(smtp_ok)]
            /\ site_row' = Tracked(site_row,
                                   should_notify(site_row, poll.new_status, poll.old_status),
                                   send_notification(smtp_ok), poll.new_status)
            /\ IF /\ should_notify(site_row, poll.new_status, poll.old_status)
                  /\ send_notification(smtp_ok)
               THEN sent' = Append(sent, [poll |-> poll.id, at |-> utcnow,
                                          new_status |-> poll.new_status])
               ELSE UNCHANGED sent
            /\ UNCHANGED readings
    /\ UNCHANGED email_configured
    /\ UNCHANGED OutsidePipe

ParsedStatuses == {OPERATIONAL, RECENTLY_RESOLVED, MAINTENANCE, DEGRADED, INCIDENT, UNKNOWN}

\* exceptions of the steps
Raised(text) == Lit(text)

InitPipe ==
    /\ SqlIdle /\ ParseInit /\ ClockInit /\ SchedInit /\ AdvInit /\ PollInit /\ FnInit
    /\ readings = <<>>
    /\ site_row = NoSite
    /\ poll = NoPoll
    /\ sent = <<>>
    /\ email_configured \in BOOLEAN

\* the polls with every failure the handlers are written for
PipeNext ==
    \/ \E hours \in {0, 1} : poll_site_start(hours, MaxFailingPolls)
    \/ \E status \in ParsedStatuses : poll_site_reading(status, None)
    \/ poll_site_reading(UNKNOWN, Raised("'status'"))
    \/ \E found \in BOOLEAN, provider \in {"unconfigured", "answers", "raises"} :
           poll_site_advisories(found, provider, None)
    \/ poll_site_advisories(TRUE, "answers", Raised("database is locked"))
    \/ \E smtp_ok \in BOOLEAN : poll_site_notify(smtp_ok, None)
    \/ poll_site_notify(TRUE, Raised("database is locked"))

SpecPipe == InitPipe /\ [][PipeNext]_vars

\* the polls when nothing but SMTP fails: the statuses the parser reports,
\* the time between polls and the delivery vary
NotifyNext ==
    \/ \E hours \in {0, 1} : poll_site_start(hours, MaxPolls)
    \/ \E status \in ParsedStatuses : poll_site_reading(status, None)
    \/ poll_site_advisories(FALSE, "unconfigured", None)
    \/ \E smtp_ok \in BOOLEAN : poll_site_notify(smtp_ok, None)

SpecNotify == InitPipe /\ [][NotifyNext]_vars



(***************************************************************************)
(* Properties of the poll's steps                                          *)
(***************************************************************************)
\* the Reading the poll in progress committed
OwnReading == ReadingRow(poll.id, poll.new_status,
                         IF poll.new_status = UNKNOWN THEN "error" ELSE "html", None)

\* C24: a failure of the text analysis never fails the poll: when the
\* provider raises, analyze_advisory answers with the keyword analyzer, and
\* whatever the advisory step does, exception included, the Reading already
\* committed stays the last row and the poll goes on to the notification.
C24_AdvisoryFailureContained ==
    [][poll.pc = "advisories" =>
        /\ poll'.pc = "notify"
        /\ poll'.failed = None
        /\ readings' = readings
        /\ readings[Len(readings)] = OwnReading
        /\ (poll'.provider = "raises" /\ poll'.advisory_error = None)
               => poll'.analysis = "fallback"]_vars

\* the provider raised while an advisory was analysed, the keyword analyzer
\* answered, and the poll has finished its notification step with its one
\* Reading in place
C24_Witness ==
    /\ poll.pc = "done"
    /\ poll.provider = "raises"
    /\ poll.analysis = "fallback"
    /\ poll.failed = None
    /\ readings[Len(readings)] = OwnReading

\* the rows of the timeline a poll appended
RowsOf(id) == {k \in 1..Len(readings) : readings[k].poll = id}

\* the polls that have returned
Finished == {id \in 1..poll.id : id < poll.id \/ poll.pc = "done"}

\* C26 (second half): no step of a poll changes or removes a Reading that is
\* already in the timeline.
C26_AppendOnly ==
    [][/\ Len(readings') >= Len(readings)
       /\ \A k \in 1..Len(readings) : readings'[k] = readings[k]]_vars

\* C26: each poll of the site appends exactly one Reading to the timeline,
\* whether it succeeds or fails at any step, and no poll changes or removes a
\* Reading of an earlier poll.
C26_OneReadingPerPoll ==
    [][/\ \A id \in Finished' : Cardinality(RowsOf(id)') = 1
       /\ Len(readings') >= Len(readings)
       /\ \A k \in 1..Len(readings) : readings'[k] = readings[k]]_vars

\* a poll that committed its Reading, failed in the notification step and
\* left a second, "error" Reading behind
C26_TwoReadings ==
    /\ poll.pc = "done"
    /\ poll.failed # None
    /\ Cardinality(RowsOf(poll.id)) = 2
    /\ readings[Len(readings) - 1] = OwnReading
    /\ readings[Len(readings)].source_type = "error"

Degraded == {DEGRADED, INCIDENT, MAINTENANCE}
Recovered == {OPERATIONAL, RECENTLY_RESOLVED}

\* the last notification delivered was for a transition into a degraded
\* status, and the poll in progress sees the site come back from one
RecoveryAfterNotifiedDegradation ==
    /\ email_configured
    /\ sent # <<>>
    /\ sent[Len(sent)].new_status \in Degraded
    /\ site_row.last_notified_status \in {Some(status) : status \in Degraded}
    /\ poll.old_status \in Degraded
    /\ poll.new_status \in Recovered

\* C27: when a notification was sent for the transition into DEGRADED,
\* INCIDENT or MAINTENANCE and a later poll observes the transition back to
\* OPERATIONAL or RECENTLY_RESOLVED, the policy decides to notify for that
\* recovery (email configured).
C27_RecoveryNotified ==
    [][(poll.pc = "notify" /\ poll'.failed = None /\ RecoveryAfterNotifiedDegradation)
           => poll'.notify]_vars

\* C27 with the cooldown over: the recovery is notified when the poll that
\* observes it runs at least the cooldown after the degradation's notification.
C27_RecoveryNotifiedAfterCooldown ==
    [][(/\ poll.pc = "notify" /\ poll'.failed = None
        /\ RecoveryAfterNotifiedDegradation
        /\ (utcnow - site_row.last_notified_at.v) * MinutesPerHour
               >= notification_cooldown_minutes)
           => poll'.notify]_vars

\* the recovery was observed inside the cooldown of the degradation's
\* notification: the policy declined, and the site's tracking still names the
\* degraded status
C27_RecoveryUnnotified ==
    /\ poll.pc = "done"
    /\ poll.failed = None
    /\ RecoveryAfterNotifiedDegradation
    /\ ~poll.notify
    /\ sent[Len(sent)].at = utcnow

\* datetime.utcnow() < site.last_notified_at + timedelta(minutes=cooldown)
InCooldown ==
    /\ site_row.last_notified_at # None
    /\ (utcnow - site_row.last_notified_at.v) * MinutesPerHour
           < notification_cooldown_minutes

====
